---------------------------- MODULE Spec2Model ----------------------------
(***************************************************************************)
(* Model of the AMD SVM per-CPU virtualization core of Jailhouse           *)
(* (hypervisor/arch/x86/svm.c): the control block (VMCB) of one CPU, the   *)
(* VM-exit dispatcher vcpu_handle_exit with the emulators it drives, the   *)
(* reset and parking of the vCPU, and the nested page table of a cell.     *)
(*                                                                         *)
(* 64-bit register values are sets of bit positions (bit i set <=> i is in *)
(* the set), so that &, |, ^, ~ and << are computed as the code computes   *)
(* them; instruction pointers and memory addresses, on which the code does *)
(* arithmetic, are integers.                                               *)
(***************************************************************************)
EXTENDS Integers, Sequences, FiniteSets, TLC

(***************************************************************************)
(* Bit vectors.                                                            *)
(***************************************************************************)
U64 == 0..63
U32 == 0..31

BitAnd(a, b) == a \cap b
BitOr(a, b) == a \cup b
BitXor(a, b) == (a \ b) \cup (b \ a)
BitNot(a) == U64 \ a
Shl(a, n) == {i + n : i \in {j \in a : j + n <= 63}}
Low32(a) == a \cap U32

\* The set of bits of a small non-negative integer.
BitsOf(n) == {i \in 0..30 : (n \div (2 ^ i)) % 2 = 1}

\* Unsigned comparison of two bit vectors.
ULess(a, b) == \E i \in b \ a : \A j \in (i + 1)..63 : (j \in a) <=> (j \in b)
ULessEq(a, b) == a = b \/ ULess(a, b)

(***************************************************************************)
(* Architectural constants used by svm.c.                                  *)
(***************************************************************************)
X86_CR0_PE == {0}
X86_CR0_ET == {4}
X86_CR0_WP == {16}
X86_CR0_NW == {29}
X86_CR0_CD == {30}
X86_CR0_PG == {31}
X86_CR4_PAE == {5}

EFER_LME == {8}
EFER_LMA == {10}
EFER_NXE == {11}
EFER_SVME == {12}

X86_XCR0_FP == {0}

SVM_CR0_ALLOWED_BITS == BitNot(X86_CR0_NW)
CLEAN_BITS_CRX == {5}
CLEAN_BITS_ALL == U32

\* 0x0007040600070406
PAT_RESET_VALUE == {1, 2, 10, 16, 17, 18, 33, 34, 42, 48, 49, 50}

MSR_EFER == {7, 30, 31}
MTRR_DEFTYPE == BitsOf(767)
MSR_X2APIC_BASE == BitsOf(2048)
MSR_X2APIC_END == BitsOf(2111)

\* 0xfee00000 and the first address after the 4 KiB controller page
XAPIC_BASE == {21, 22, 23, 25, 26, 27, 28, 29, 30, 31}
XAPIC_END == XAPIC_BASE \cup {12}

VMEXIT_INVALID == -1
VMEXIT_NMI == 97
VMEXIT_CR0_SEL_WRITE == 101
VMEXIT_CPUID == 114
VMEXIT_IOIO == 123
VMEXIT_MSR == 124
VMEXIT_SHUTDOWN == 127
VMEXIT_VMMCALL == 129
VMEXIT_XSETBV == 141
VMEXIT_NPF == 1024

X86_INST_LEN_MOV_TO_CR == 3
X86_INST_LEN_RDMSR == 2
X86_INST_LEN_WRMSR == 2
X86_INST_LEN_XSETBV == 3

APIC_BSP_PSEUDO_SIPI == 256

SVM_TLB_FLUSH_NONE == 0
SVM_TLB_FLUSH_ALL == 1
SVM_TLB_FLUSH_GUEST == 3

PAGE_SIZE == 4096

\* The statistics categories of cpu_data->stats[].
StatCategories ==
    {"TOTAL", "MMIO", "MANAGEMENT", "HYPERCALL", "PIO", "XAPIC", "CR", "MSR",
     "XSETBV"}

(***************************************************************************)
(* struct registers, seen as the array of 16 unsigned longs svm_handle_cr  *)
(* indexes with 15 - reg: rax is the last slot, r15 the first.             *)
(***************************************************************************)
RAX == 15
RCX == 14
RDX == 13
RBX == 12

ZeroRegs == [i \in 0..15 |-> {}]
MkRegs(rax, rcx, rdx, rbx) ==
    [i \in 0..15 |->
        CASE i = RAX -> rax
          [] i = RCX -> rcx
          [] i = RDX -> rdx
          [] i = RBX -> rbx
          [] OTHER -> {}]

(***************************************************************************)
(* Bounds of the model.                                                    *)
(***************************************************************************)
\* exits handled on the CPU before the model stops taking further exits
MaxExits == 2

VARIABLES
    pc,                \* "offline", "initialized" (vcpu_init returned 0),
                       \* "guest" (the guest runs, exits arrive), "stopped"
                       \* (panic_park), "failed" (vcpu_init error),
                       \* "deactivated", "faulted" (vcpu_deactivate_vmm
                       \* stored through an unmapped stack pointer) or
                       \* "exited"
    svm_state,         \* cpu_data->svm_state
    has_assists,       \* decode assists reported by CPUID
    has_flush_by_asid, \* flush-by-ASID reported by CPUID
    has_avic,          \* AVIC reported by CPUID
    linux,             \* cpu_data->linux_*: the host state saved at entry
    host,              \* MSRs and registers of the physical CPU
    vmcb,              \* cpu_data->vmcb
    guest_regs,        \* the guest's general-purpose register save area
    stats,             \* cpu_data->stats[]
    seen,              \* history: exits taken so far, per category
    last,              \* history: what the last operation did
    npt,               \* nested page table of each cell: page -> entry
    mapped,            \* history: the regions mapped and not unmapped since
    hw,                \* what the hardware and the platform report
    vendor,            \* vcpu_vendor_init: "uninit", "ready" or "failed"
    msrpm,             \* the global MSR intercept bitmap
    parked_mode_npt,   \* the nested page table of parked CPUs
    avic_page          \* host page number of the AVIC backing page, 0: NULL

vars == <<pc, svm_state, has_assists, has_flush_by_asid, has_avic, linux,
          host, vmcb, guest_regs, stats, seen, last, npt, mapped, hw, vendor,
          msrpm, parked_mode_npt, avic_page>>

globalVars == <<hw, vendor, msrpm, parked_mode_npt, avic_page>>

cpuVars == <<pc, svm_state, has_assists, has_flush_by_asid, has_avic, linux,
             host, vmcb, guest_regs, stats, seen>>


(***************************************************************************)
(* Host state found at entry (the linux_ fields of cpu_data) and Init.      *)
(***************************************************************************)
NUM_ENTRY_REGS == 6
\* CR0 bits 6..15, 17 and 19..28
X86_CR0_RESERVED == (6..15) \cup {17} \cup (19..28)

\* CR0 as Linux runs with it, CR0 with the caches disabled (CD and NW
\* set), and CR0 with a bit the code takes as reserved.
LinuxCr0Inputs ==
    { X86_CR0_PE \cup X86_CR0_ET \cup X86_CR0_WP \cup X86_CR0_PG,
      X86_CR0_PE \cup X86_CR0_ET \cup X86_CR0_WP \cup X86_CR0_PG
         \cup X86_CR0_CD \cup X86_CR0_NW,
      X86_CR0_PE \cup X86_CR0_ET \cup X86_CR0_PG \cup {17} }

LinuxStates ==
    [cr0 : LinuxCr0Inputs, cr3 : {{12}}, cr4 : {X86_CR4_PAE},
     efer : {{0} \cup EFER_LME \cup EFER_LMA \cup EFER_NXE},
     ip : {8192}, sp : {4096}, cs_selector : {16}, pat : {{1, 2}},
     gdtr_base : {36864}, gdtr_limit : {127},
     idtr_base : {40960}, idtr_limit : {4095},
     ds_selector : {24}, es_selector : {24}, fs_selector : {0},
     gs_selector : {0}, tss_selector : {64},
     fs_base : {28672}, gs_base : {32768},
     sysenter_cs : {0}, sysenter_eip : {0}, sysenter_esp : {0}]

\* The features CPUID reports on one CPU.
AllFeatures ==
    [svm |-> TRUE, np |-> TRUE, assists |-> TRUE, avic |-> TRUE,
     flush_by_asid |-> TRUE]
BaseFeatures ==
    [svm |-> TRUE, np |-> TRUE, assists |-> FALSE, avic |-> FALSE,
     flush_by_asid |-> FALSE]
NoSvmFeatures == [AllFeatures EXCEPT !.svm = FALSE]
NoNpFeatures == [AllFeatures EXCEPT !.np = FALSE]

\* Platforms: master is the CPU vcpu_vendor_init runs on, cpu the CPU of
\* this model; svmdis is VM_CR.SVMDIS.  The last profile uses x2APIC on a
\* CPU that reports AVIC (nested SVM).
GoodHw ==
    [master |-> AllFeatures, cpu |-> AllFeatures, svmdis |-> FALSE,
     using_x2apic |-> FALSE]

HwProfiles ==
    { GoodHw,
      [GoodHw EXCEPT !.master = BaseFeatures, !.cpu = BaseFeatures,
                     !.using_x2apic = TRUE],
      [GoodHw EXCEPT !.master = NoSvmFeatures, !.cpu = NoSvmFeatures],
      [GoodHw EXCEPT !.master = NoNpFeatures, !.cpu = NoNpFeatures],
      [GoodHw EXCEPT !.cpu = NoSvmFeatures],
      [GoodHw EXCEPT !.cpu = NoNpFeatures],
      [GoodHw EXCEPT !.svmdis = TRUE],
      [GoodHw EXCEPT !.using_x2apic = TRUE] }

ZeroVmcb ==
    [cr0 |-> {}, cr3 |-> {}, cr4 |-> {}, efer |-> {}, rip |-> 0, rsp |-> 0,
     cs_selector |-> 0, cs_base |-> 0, clean_bits |-> {}, n_cr3 |-> "none",
     tlb_control |-> SVM_TLB_FLUSH_NONE, g_pat |-> {},
     gdtr_base |-> 0, gdtr_limit |-> 0, idtr_base |-> 0, idtr_limit |-> 0,
     ds_selector |-> 0, es_selector |-> 0, fs_selector |-> 0,
     gs_selector |-> 0, tr_selector |-> 0, fs_base |-> 0, gs_base |-> 0,
     sysenter_cs |-> 0, sysenter_eip |-> 0, sysenter_esp |-> 0,
     star |-> 0, lstar |-> 0, cstar |-> 0, sfmask |-> 0, kerngsbase |-> 0]

ZeroHost ==
    [efer |-> {}, pat |-> {}, xcr0 |-> {}, cr0 |-> "linux", cr4 |-> "linux",
     hsave_pa |-> "none",
     sysenter_cs |-> 0, sysenter_eip |-> 0, sysenter_esp |-> 0,
     star |-> 0, lstar |-> 0, cstar |-> 0, sfmask |-> 0, kerngsbase |-> 0]

\* The MSRs of the host as Linux set them before the hypervisor starts.
LinuxMsrs ==
    [ZeroHost EXCEPT !.sysenter_cs = 16, !.sysenter_eip = 45056,
                     !.sysenter_esp = 49152, !.star = 1040, !.lstar = 53248,
                     !.cstar = 57344, !.sfmask = 1792, !.kerngsbase = 61440]

NoExt ==
    [sipi |-> -1, x2apic_ok |-> TRUE, apic_len |-> 0, pt_ok |-> TRUE,
     io_ok |-> TRUE, inst |-> <<0, 0, 0>>, map_ok |-> TRUE, map_size |-> 3,
     guest |-> <<0, 0, 0>>]

NoDecode == [ok |-> FALSE, gpr |-> 0]

NoPaging == [ok |-> FALSE, root_paging |-> "none", root_table_gphys |-> {}]

NoMem == [phys_start |-> 0, virt_start |-> 0, size |-> 0, flags |-> {}]

\* No statistics attribute read.
NoQuery == [code |-> "none", cpus_assigned |-> {}, info |-> <<>>]

\* No call of vcpu_get_inst_bytes.
NoFetch ==
    [assists |-> FALSE, rip |-> 0, bytes_fetched |-> 0, pc |-> 0, size |-> 0,
     map_ok |-> FALSE, map_size |-> 0, buf |-> "none", ret |-> -1,
     ret_size |-> 0]

NoLast ==
    [op |-> "none", exitcode |-> 0, exitinfo1 |-> {}, exitinfo2 |-> {},
     regs |-> ZeroRegs, ext |-> NoExt, pre |-> ZeroVmcb, prehost |-> ZeroHost,
     result |-> "none", clean0 |-> {}, flushes |-> 0, msrs |-> {},
     calls |-> {}, dumped |-> FALSE, reset |-> FALSE,
     cell |-> "none", mem |-> NoMem, err |-> 0,
     reg |-> 0, dec |-> NoDecode, pg |-> NoPaging,
     query |-> NoQuery, buffer |-> <<>>, fetch |-> NoFetch]

\* The global intercept bitmap as it is initialised statically: the bytes
\* that are not 0, and the bytes of the x2APIC range.
MsrpmStatic ==
    [SVM_MSRPM_0000 |->
        [i \in {6, 191} \cup (512..527) |->
            CASE i \in {6, 191} -> 128
              [] i = 512 -> 144
              [] i = 513 -> 0
              [] i = 514 -> 147
              [] i = 515 -> 200
              [] i \in 516..521 -> 85
              [] i = 522 -> 3
              [] i = 523 -> 192
              [] i = 524 -> 243
              [] i = 525 -> 255
              [] i = 526 -> 7
              [] OTHER -> 112],
     SVM_MSRPM_C000 |-> [i \in {32} |-> 2]]

\* The state before vcpu_vendor_init.
InitCpu ==
    /\ pc = "offline"
    /\ svm_state = "SVMOFF"
    /\ has_assists = FALSE
    /\ has_flush_by_asid = FALSE
    /\ has_avic = FALSE
    /\ hw \in HwProfiles
    /\ vendor = "uninit"
    /\ msrpm = MsrpmStatic
    /\ linux \in LinuxStates
    /\ \E busy \in BOOLEAN :
          host = [LinuxMsrs EXCEPT
                     !.efer = IF busy THEN linux.efer \cup EFER_SVME
                                      ELSE linux.efer,
                     !.pat = linux.pat, !.xcr0 = X86_XCR0_FP]
    /\ vmcb = ZeroVmcb
    /\ guest_regs = ZeroRegs
    /\ stats = [c \in StatCategories |-> 0]
    /\ seen = [c \in StatCategories \cup {"NONE"} |-> 0]
    /\ last = NoLast

(***************************************************************************)
(* Nested page tables.  A table is a function from guest page numbers to   *)
(* entries [phys: host page number, flags: the entry's flag bits].         *)
(***************************************************************************)
PAGE_FLAG_PRESENT == {0}
PAGE_FLAG_RW == {1}
PAGE_FLAG_US == {2}
PAGE_FLAG_DEVICE == {4}
PAGE_FLAG_NOEXECUTE == {63}
PAGE_DEFAULT_FLAGS == PAGE_FLAG_PRESENT \cup PAGE_FLAG_RW
PAGE_READONLY_FLAGS == PAGE_FLAG_PRESENT

JAILHOUSE_MEM_READ == {0}
JAILHOUSE_MEM_WRITE == {1}
JAILHOUSE_MEM_EXECUTE == {2}
JAILHOUSE_MEM_COMM_REGION == {5}

INVALID_PHYS_ADDR == -1
\* page number of XAPIC_BASE (0xfee00000)
XAPIC_PAGE == 1043968
\* page number of the AVIC backing page
AVIC_PAGE == 48

Cells == {"root", "cell1"}
\* paging_hvirt2phys(&cell->comm_page)
CommPagePhys(cell) == IF cell = "root" THEN 65536 ELSE 69632

EmptyTable == [p \in {} |-> 0]
PagesOf(start, size) ==
    {(start \div PAGE_SIZE) + i : i \in 0..((size \div PAGE_SIZE) - 1)}

\* paging_create on page numbers: maps npages pages at page vpage to ppage.
paging_create_pages(pt, ppage, npages, vpage, flags) ==
    LET range == {vpage + i : i \in 0..(npages - 1)}
    IN  IF range \cap DOMAIN pt # {}
        THEN [err |-> -22, pt |-> pt]
        ELSE [err |-> 0,
              pt |-> [p \in DOMAIN pt \cup range |->
                         IF p \in range
                         THEN [phys |-> ppage + (p - vpage), flags |-> flags]
                         ELSE pt[p]]]

\* paging_create: maps size bytes at virt to phys with the given flags;
\* fails, changing nothing, when part of the range is already mapped.
paging_create(pt, phys, size, virt, flags) ==
    paging_create_pages(pt, phys \div PAGE_SIZE, size \div PAGE_SIZE,
                        virt \div PAGE_SIZE, flags)

\* paging_destroy: removes the mappings of size bytes at virt.
paging_destroy(pt, virt, size) ==
    [err |-> 0, pt |-> [p \in DOMAIN pt \ PagesOf(virt, size) |-> pt[p]]]

\* paging_virt2phys: the walk ends at an entry that is mapped and has all
\* the flags the caller requires, or fails.
paging_virt2phys(pt, virt, flags) ==
    LET p == virt \div PAGE_SIZE
    IN  IF p \in DOMAIN pt /\ BitAnd(pt[p].flags, flags) = flags
        THEN pt[p].phys * PAGE_SIZE + (virt % PAGE_SIZE)
        ELSE INVALID_PHYS_ADDR

arch_paging_gphys2phys(cell, gphys, flags) ==
    paging_virt2phys(npt[cell], gphys, flags)

\* The table vcpu_vendor_cell_init builds in a new root table: the
\* interrupt-controller page, mapped to itself or, with AVIC, to the page
\* avic_page points to (page: its page number, 0 for a NULL pointer).
CellInitTable(avic, page) ==
    IF ~avic
    THEN paging_create_pages(EmptyTable, XAPIC_PAGE, 1, XAPIC_PAGE,
             PAGE_READONLY_FLAGS \cup PAGE_FLAG_US \cup PAGE_FLAG_DEVICE)
    ELSE paging_create_pages(EmptyTable, page, 1, XAPIC_PAGE,
             PAGE_DEFAULT_FLAGS \cup PAGE_FLAG_DEVICE)

ENODEV == 19
EIO == 5
EPERM == 1
ENOMEM == 12
EBUSY == 16

\* The page_alloc call of an operation that returns NULL, if any.
AllocFailInputs == {"none", "parked_mode_npt", "avic_page", "iopm",
                    "root_table"}

\* vcpu_vendor_cell_init as a function: the error it returns and the root
\* table it leaves in the cell ("kept": cell->svm.npt_structs.root_table is
\* not assigned, "null": it is NULL, "built": the new table pt).
CellInit(avic, page, fail) ==
    IF fail = "iopm"
    THEN [err |-> -ENOMEM, root_table |-> "kept", pt |-> EmptyTable]
    ELSE IF fail = "root_table"
    THEN [err |-> -ENOMEM, root_table |-> "null", pt |-> EmptyTable]
    ELSE [err |-> CellInitTable(avic, page).err, root_table |-> "built",
          pt |-> CellInitTable(avic, page).pt]

\* vcpu_vendor_cell_init was not reached.
NoCellInit == [err |-> 0, root_table |-> "kept", pt |-> EmptyTable]

\* The cells' tables and the regions mapped in them after cell has run
\* vcpu_vendor_cell_init with the result r.
NptAfterCellInit(t, cell, r) ==
    IF r.root_table = "kept" THEN t
    ELSE IF r.root_table = "null" THEN [c \in DOMAIN t \ {cell} |-> t[c]]
    ELSE [c \in DOMAIN t \cup {cell} |-> IF c = cell THEN r.pt ELSE t[c]]

MappedAfterCellInit(m, cell, r) ==
    IF r.root_table = "kept" THEN m ELSE {x \in m : x.cell # cell}

\* Mutant: the user bit is left out of the entry's flags.
MapFlags_no_user(mem) ==
    (IF BitAnd(mem.flags, JAILHOUSE_MEM_READ) # {} THEN PAGE_FLAG_PRESENT ELSE {})
    \cup (IF BitAnd(mem.flags, JAILHOUSE_MEM_WRITE) # {} THEN PAGE_FLAG_RW ELSE {})
    \cup (IF BitAnd(mem.flags, JAILHOUSE_MEM_EXECUTE) = {}
          THEN PAGE_FLAG_NOEXECUTE ELSE {})

\* The flags vcpu_map_memory_region computes for a region.
MapFlags(mem) ==
    PAGE_FLAG_US
    \cup (IF BitAnd(mem.flags, JAILHOUSE_MEM_READ) # {} THEN PAGE_FLAG_PRESENT ELSE {})
    \cup (IF BitAnd(mem.flags, JAILHOUSE_MEM_WRITE) # {} THEN PAGE_FLAG_RW ELSE {})
    \cup (IF BitAnd(mem.flags, JAILHOUSE_MEM_EXECUTE) = {}
          THEN PAGE_FLAG_NOEXECUTE ELSE {})

\* Mutant: a communication region is mapped to the address it asks for.
MapPhysStart_as_configured(cell, mem) == mem.phys_start

\* The host-physical start vcpu_map_memory_region maps a region to.
MapPhysStart(cell, mem) ==
    IF BitAnd(mem.flags, JAILHOUSE_MEM_COMM_REGION) # {}
    THEN CommPagePhys(cell)
    ELSE mem.phys_start

\* regions mapped into the cells before the model stops mapping more
MaxRegions == 2

\* All eight access combinations for one page at 0x1000, two-page regions
\* that overlap it, regions at 0x3000, and communication regions that ask
\* for two different physical addresses.
MemInputs ==
    [phys_start : {8192}, virt_start : {4096}, size : {4096},
     flags : SUBSET {0, 1, 2}]
    \cup
    [phys_start : {8192}, virt_start : {4096}, size : {8192},
     flags : {{1}, {0, 2}}]
    \cup
    [phys_start : {8192}, virt_start : {12288}, size : {4096, 8192},
     flags : {{0, 1}}]
    \cup
    [phys_start : {8192, 20480}, virt_start : {4096}, size : {4096},
     flags : {{0, 1, 5}}]

\* vcpu_vendor_cell_init, once vcpu_vendor_init has set up npt_paging.
vcpu_vendor_cell_init(cell) ==
    /\ vendor = "ready"
    /\ \E fail \in {"none", "iopm", "root_table"} :
       \E r \in {CellInit(has_avic, avic_page, fail)} :
          /\ npt' = NptAfterCellInit(npt, cell, r)
          /\ mapped' = MappedAfterCellInit(mapped, cell, r)
          /\ last' = [NoLast EXCEPT !.op = "vcpu_vendor_cell_init",
                                    !.cell = cell, !.err = r.err]
    /\ UNCHANGED <<cpuVars, globalVars>>

vcpu_map_memory_region(cell, mem) ==
    /\ cell \in DOMAIN npt
    /\ Cardinality(mapped) < MaxRegions
    /\ \E r \in {paging_create(npt[cell], MapPhysStart(cell, mem), mem.size,
                                mem.virt_start, MapFlags(mem))} :
           /\ npt' = [npt EXCEPT ![cell] = r.pt]
           /\ mapped' = IF r.err = 0
                        THEN mapped \cup {[cell |-> cell, mem |-> mem]}
                        ELSE mapped
           /\ last' = [NoLast EXCEPT !.op = "vcpu_map_memory_region",
                                     !.cell = cell, !.mem = mem, !.err = r.err]
    /\ UNCHANGED <<cpuVars, globalVars>>

\* The regions that are still mapped as a whole after the range of mem has
\* been unmapped in cell.
MappedAfterUnmap(m, cell, mem) ==
    {x \in m : \/ x.cell # cell
               \/ PagesOf(x.mem.virt_start, x.mem.size)
                     \cap PagesOf(mem.virt_start, mem.size) = {}}

\* Mutant: only the first page of the region is unmapped.
vcpu_unmap_memory_region_first_page(cell, mem) ==
    /\ cell \in DOMAIN npt
    /\ \E r \in {paging_destroy(npt[cell], mem.virt_start, PAGE_SIZE)} :
           /\ npt' = [npt EXCEPT ![cell] = r.pt]
           /\ last' = [NoLast EXCEPT !.op = "vcpu_unmap_memory_region",
                                     !.cell = cell, !.mem = mem, !.err = r.err]
    /\ mapped' = MappedAfterUnmap(mapped, cell, mem)
    /\ UNCHANGED <<cpuVars, globalVars>>

vcpu_unmap_memory_region(cell, mem) ==
    /\ cell \in DOMAIN npt
    /\ \E r \in {paging_destroy(npt[cell], mem.virt_start, mem.size)} :
           /\ npt' = [npt EXCEPT ![cell] = r.pt]
           /\ last' = [NoLast EXCEPT !.op = "vcpu_unmap_memory_region",
                                     !.cell = cell, !.mem = mem, !.err = r.err]
    /\ mapped' = MappedAfterUnmap(mapped, cell, mem)
    /\ UNCHANGED <<cpuVars, globalVars>>

\* vcpu_vendor_cell_exit: the cell's root table is freed, and with it what
\* was mapped in it.
vcpu_vendor_cell_exit(cell) ==
    /\ cell \in DOMAIN npt
    /\ npt' = [c \in DOMAIN npt \ {cell} |-> npt[c]]
    /\ mapped' = {x \in mapped : x.cell # cell}
    /\ last' = [NoLast EXCEPT !.op = "vcpu_vendor_cell_exit", !.cell = cell]
    /\ UNCHANGED <<cpuVars, globalVars>>

\* svm_check_features on a CPU that reports the features f: the error, and
\* the feature flags it sets.
svm_check_features(f) ==
    IF ~f.svm
    THEN [err |-> -ENODEV, assists |-> FALSE, avic |-> FALSE,
          flush_by_asid |-> FALSE]
    ELSE IF ~f.np
    THEN [err |-> -EIO, assists |-> FALSE, avic |-> FALSE,
          flush_by_asid |-> FALSE]
    ELSE [err |-> 0, assists |-> f.assists, avic |-> f.avic,
          flush_by_asid |-> f.flush_by_asid]

\* host-physical page of parking_code
PARKING_CODE_PAGE == 64
\* guest-physical page the parking code is mapped at (0x000ff000)
PARKING_GUEST_PAGE == 255

\* The bytes of parking_code that are not 0 (cli, hlt, jmp 1b at 0xff0).
parking_code ==
    [o \in 0..(PAGE_SIZE - 1) |->
        CASE o = 4080 -> 250
          [] o = 4081 -> 244
          [] o = 4082 -> 235
          [] o = 4083 -> 252
          [] OTHER -> 0]

\* The table vcpu_vendor_init builds for parked CPUs.
ParkingTable ==
    paging_create(EmptyTable, PARKING_CODE_PAGE * PAGE_SIZE, PAGE_SIZE,
                  PARKING_GUEST_PAGE * PAGE_SIZE,
                  PAGE_READONLY_FLAGS \cup PAGE_FLAG_US)

\* The carve-out for direct x2APIC access: the range is cleared, writes to
\* the ICR stay intercepted.
MsrpmX2ApicCarveOut(m) ==
    [m EXCEPT !.SVM_MSRPM_0000 =
        [i \in DOMAIN @ |-> IF i = 524 THEN 2
                            ELSE IF i \in 512..527 THEN 0
                            ELSE @[i]]]

\* The page avic_page points to after vcpu_vendor_init's allocation: none
\* is made under x2APIC or without AVIC.
VendorAvicPage(avic, x2apic, fail) ==
    IF ~x2apic /\ avic /\ fail # "avic_page" THEN AVIC_PAGE ELSE 0

\* vcpu_vendor_init after the feature check and the test of VM_CR.SVMDIS,
\* with the feature flags f as the check left them: the error returned and
\* the global tables, the AVIC page and the root cell's table it leaves.
VendorInitTables(f, x2apic, fail, m) ==
    IF fail = "parked_mode_npt"
    THEN [err |-> -ENOMEM, parked_mode_npt |-> EmptyTable, msrpm |-> m,
          avic_page |-> 0, cell |-> NoCellInit]
    ELSE IF ~x2apic /\ f.avic /\ fail = "avic_page"
    THEN [err |-> -ENOMEM, parked_mode_npt |-> ParkingTable.pt, msrpm |-> m,
          avic_page |-> 0, cell |-> NoCellInit]
    ELSE [err |-> CellInit(f.avic, VendorAvicPage(f.avic, x2apic, fail),
                           fail).err,
          parked_mode_npt |-> ParkingTable.pt,
          msrpm |-> IF x2apic THEN MsrpmX2ApicCarveOut(m) ELSE m,
          avic_page |-> VendorAvicPage(f.avic, x2apic, fail),
          cell |-> CellInit(f.avic, VendorAvicPage(f.avic, x2apic, fail),
                            fail)]

\* Mutant: a CPU without nested paging passes the feature check.
vcpu_vendor_init_no_np_check ==
    /\ vendor = "uninit"
    /\ pc = "offline"
    /\ has_assists' = hw.master.assists
    /\ has_avic' = hw.master.avic
    /\ has_flush_by_asid' = hw.master.flush_by_asid
    /\ \E t \in {VendorInitTables(hw.master, hw.using_x2apic, "none",
                                   msrpm)} :
          /\ vendor' = "ready"
          /\ parked_mode_npt' = t.parked_mode_npt
          /\ msrpm' = t.msrpm
          /\ avic_page' = t.avic_page
          /\ npt' = NptAfterCellInit(npt, "root", t.cell)
    /\ last' = [NoLast EXCEPT !.op = "vcpu_vendor_init"]
    /\ UNCHANGED <<pc, svm_state, linux, host, vmcb, guest_regs, stats, seen,
                   mapped, hw>>

\* vcpu_vendor_init, run once on the master CPU; it ends with the init of
\* the root cell.
vcpu_vendor_init ==
    /\ vendor = "uninit"
    /\ pc = "offline"
    /\ \E r \in {svm_check_features(hw.master)}, fail \in AllocFailInputs :
          /\ has_assists' = (has_assists \/ r.assists)
          /\ has_avic' = (has_avic \/ r.avic)
          /\ has_flush_by_asid' = (has_flush_by_asid \/ r.flush_by_asid)
          /\ IF r.err # 0
             THEN /\ vendor' = "failed"
                  /\ last' = [NoLast EXCEPT !.op = "vcpu_vendor_init",
                                            !.err = r.err]
                  /\ UNCHANGED <<msrpm, parked_mode_npt, avic_page, npt>>
             ELSE IF hw.svmdis
             THEN /\ vendor' = "failed"
                  /\ last' = [NoLast EXCEPT !.op = "vcpu_vendor_init",
                                            !.err = -EPERM]
                  /\ UNCHANGED <<msrpm, parked_mode_npt, avic_page, npt>>
             ELSE \E t \in {VendorInitTables(
                                [r EXCEPT !.avic = has_avic \/ r.avic],
                                hw.using_x2apic, fail, msrpm)} :
                  /\ vendor' = IF t.err = 0 THEN "ready" ELSE "failed"
                  /\ parked_mode_npt' = t.parked_mode_npt
                  /\ msrpm' = t.msrpm
                  /\ avic_page' = t.avic_page
                  /\ npt' = NptAfterCellInit(npt, "root", t.cell)
                  /\ last' = [NoLast EXCEPT !.op = "vcpu_vendor_init",
                                            !.err = t.err]
    /\ UNCHANGED <<pc, svm_state, linux, host, vmcb, guest_regs, stats, seen,
                   mapped, hw>>

Init ==
    /\ InitCpu
    /\ parked_mode_npt = EmptyTable
    /\ avic_page = 0
    /\ npt = [c \in {} |-> EmptyTable]
    /\ mapped = {}

\* The cell operations are explored on the platforms whose CPUs all report
\* the same features; the regions unmapped are those mapped before.
InitNpt ==
    /\ Init
    /\ hw.master = hw.cpu
    /\ host.efer = linux.efer
    /\ BitAnd(linux.cr0, X86_CR0_RESERVED) = {}

NextNpt ==
    \/ vcpu_vendor_init
    \/ \E cell \in Cells : vcpu_vendor_cell_init(cell)
    \/ \E cell \in Cells, mem \in MemInputs : vcpu_map_memory_region(cell, mem)
    \/ \E r \in mapped : vcpu_unmap_memory_region(r.cell, r.mem)
    \/ \E cell \in Cells : vcpu_vendor_cell_exit(cell)

SpecNpt == InitNpt /\ [][NextNpt]_vars

(***************************************************************************)
(* Building the control block.                                             *)
(***************************************************************************)
\* svm_set_cell_config: the nested page table root is the cell's table.
svm_set_cell_config(v) == [v EXCEPT !.n_cr3 = "cell_npt"]

vmcb_setup(l, h) ==
    svm_set_cell_config(
        [ZeroVmcb EXCEPT
            !.cr0 = BitAnd(l.cr0, SVM_CR0_ALLOWED_BITS),
            !.cr3 = l.cr3,
            !.cr4 = l.cr4,
            !.cs_selector = l.cs_selector,
            !.rsp = l.sp + (NUM_ENTRY_REGS + 1) * 8,
            !.rip = l.ip,
            !.ds_selector = l.ds_selector,
            !.es_selector = l.es_selector,
            !.fs_selector = l.fs_selector,
            !.fs_base = l.fs_base,
            !.gs_selector = l.gs_selector,
            !.gs_base = l.gs_base,
            !.tr_selector = l.tss_selector,
            !.gdtr_base = l.gdtr_base,
            !.gdtr_limit = l.gdtr_limit % 65536,
            !.idtr_base = l.idtr_base,
            !.idtr_limit = l.idtr_limit % 65536,
            !.sysenter_cs = h.sysenter_cs,
            !.sysenter_eip = h.sysenter_eip,
            !.sysenter_esp = h.sysenter_esp,
            !.star = h.star,
            !.lstar = h.lstar,
            !.cstar = h.cstar,
            !.sfmask = h.sfmask,
            !.kerngsbase = h.kerngsbase,
            !.efer = BitOr(l.efer, EFER_SVME),
            !.g_pat = h.pat,
            !.clean_bits = {}])

\* vcpu_init is called on a CPU that is offline, or again after vcpu_exit.
CanInit == pc \in {"offline", "exited"}

\* Mutant: vcpu_init does not check the CPU's features.
vcpu_init_no_feature_check ==
    /\ CanInit
    /\ vendor = "ready"
    /\ svm_state' = "SVMON"
    /\ vmcb' = vmcb_setup(linux, host)
    /\ pc' = "initialized"
    /\ host' = [host EXCEPT !.efer = BitOr(@, EFER_SVME),
                            !.cr0 = "X86_CR0_HOST_STATE",
                            !.cr4 = "X86_CR4_HOST_STATE",
                            !.hsave_pa = "host_state"]
    /\ last' = [NoLast EXCEPT !.op = "vcpu_init", !.prehost = host]
    /\ UNCHANGED <<has_assists, has_avic, has_flush_by_asid, linux,
                   guest_regs, stats, seen, npt, mapped, globalVars>>

\* Mutant: CR0 and CR4 are brought into the host state before the check
\* of the reserved CR0 bits.
vcpu_init_host_state_before_check ==
    /\ CanInit
    /\ vendor = "ready"
    /\ \E r \in {svm_check_features(hw.cpu)} :
          /\ has_assists' = (has_assists \/ r.assists)
          /\ has_avic' = (has_avic \/ r.avic)
          /\ has_flush_by_asid' = (has_flush_by_asid \/ r.flush_by_asid)
          /\ IF r.err # 0
             THEN /\ pc' = "failed"
                  /\ last' = [NoLast EXCEPT !.op = "vcpu_init",
                                            !.prehost = host, !.err = r.err]
                  /\ UNCHANGED <<svm_state, host, vmcb>>
             ELSE IF BitAnd(host.efer, EFER_SVME) # {}
             THEN /\ pc' = "failed"
                  /\ last' = [NoLast EXCEPT !.op = "vcpu_init",
                                            !.prehost = host, !.err = -EBUSY]
                  /\ UNCHANGED <<svm_state, host, vmcb>>
             ELSE /\ svm_state' = "SVMON"
                  /\ vmcb' = vmcb_setup(linux, host)
                  /\ IF BitAnd(linux.cr0, X86_CR0_RESERVED) # {}
                     THEN /\ pc' = "failed"
                          /\ host' = [host EXCEPT
                                         !.efer = BitOr(@, EFER_SVME),
                                         !.cr0 = "X86_CR0_HOST_STATE",
                                         !.cr4 = "X86_CR4_HOST_STATE"]
                          /\ last' = [NoLast EXCEPT !.op = "vcpu_init",
                                                    !.prehost = host,
                                                    !.err = -EIO]
                     ELSE /\ pc' = "initialized"
                          /\ host' = [host EXCEPT
                                         !.efer = BitOr(@, EFER_SVME),
                                         !.cr0 = "X86_CR0_HOST_STATE",
                                         !.cr4 = "X86_CR4_HOST_STATE",
                                         !.hsave_pa = "host_state"]
                          /\ last' = [NoLast EXCEPT !.op = "vcpu_init",
                                                    !.prehost = host]
    /\ UNCHANGED <<linux, guest_regs, stats, seen, npt, mapped, globalVars>>

vcpu_init ==
    /\ CanInit
    /\ vendor = "ready"
    /\ \E r \in {svm_check_features(hw.cpu)} :
          /\ has_assists' = (has_assists \/ r.assists)
          /\ has_avic' = (has_avic \/ r.avic)
          /\ has_flush_by_asid' = (has_flush_by_asid \/ r.flush_by_asid)
          /\ IF r.err # 0
             THEN /\ pc' = "failed"
                  /\ last' = [NoLast EXCEPT !.op = "vcpu_init",
                                            !.prehost = host, !.err = r.err]
                  /\ UNCHANGED <<svm_state, host, vmcb>>
             ELSE IF BitAnd(host.efer, EFER_SVME) # {}
             THEN /\ pc' = "failed"
                  /\ last' = [NoLast EXCEPT !.op = "vcpu_init",
                                            !.prehost = host, !.err = -EBUSY]
                  /\ UNCHANGED <<svm_state, host, vmcb>>
             ELSE /\ svm_state' = "SVMON"
                  /\ vmcb' = vmcb_setup(linux, host)
                  /\ IF BitAnd(linux.cr0, X86_CR0_RESERVED) # {}
                     THEN /\ pc' = "failed"
                          /\ host' = [host EXCEPT
                                         !.efer = BitOr(@, EFER_SVME)]
                          /\ last' = [NoLast EXCEPT !.op = "vcpu_init",
                                                    !.prehost = host,
                                                    !.err = -EIO]
                     ELSE /\ pc' = "initialized"
                          /\ host' = [host EXCEPT
                                         !.efer = BitOr(@, EFER_SVME),
                                         !.cr0 = "X86_CR0_HOST_STATE",
                                         !.cr4 = "X86_CR4_HOST_STATE",
                                         !.hsave_pa = "host_state"]
                          /\ last' = [NoLast EXCEPT !.op = "vcpu_init",
                                                    !.prehost = host]
    /\ UNCHANGED <<linux, guest_regs, stats, seen, npt, mapped, globalVars>>

\* Mutant: virtualization is switched off but the host-save-area MSR keeps
\* its value.
vcpu_exit_keeps_hsave ==
    /\ pc \in {"offline", "initialized", "failed", "exited", "deactivated"}
    /\ pc' = "exited"
    /\ IF svm_state = "SVMOFF"
       THEN /\ UNCHANGED <<svm_state, host>>
            /\ last' = [NoLast EXCEPT !.op = "vcpu_exit", !.prehost = host]
       ELSE /\ svm_state' = "SVMOFF"
            /\ host' = [host EXCEPT !.efer = @ \ EFER_SVME]
            /\ last' = [NoLast EXCEPT !.op = "vcpu_exit", !.prehost = host,
                                      !.calls = {"stgi"},
                                      !.msrs = {"MSR_EFER"}]
    /\ UNCHANGED <<has_assists, has_avic, has_flush_by_asid, linux, vmcb,
                   guest_regs, stats, seen, npt, mapped, globalVars>>

\* vcpu_exit on a CPU that does not run a guest: before vcpu_init, after
\* vcpu_init whatever it returned, after vcpu_deactivate_vmm (from
\* arch_cpu_restore), or once more after vcpu_exit.
vcpu_exit ==
    /\ pc \in {"offline", "initialized", "failed", "exited", "deactivated"}
    /\ pc' = "exited"
    /\ IF svm_state = "SVMOFF"
       THEN /\ UNCHANGED <<svm_state, host>>
            /\ last' = [NoLast EXCEPT !.op = "vcpu_exit", !.prehost = host]
       ELSE /\ svm_state' = "SVMOFF"
            /\ host' = [host EXCEPT !.efer = @ \ EFER_SVME,
                                    !.hsave_pa = "zero"]
            /\ last' = [NoLast EXCEPT !.op = "vcpu_exit", !.prehost = host,
                                      !.calls = {"stgi"},
                                      !.msrs = {"MSR_EFER", "MSR_VM_HSAVE_PA"}]
    /\ UNCHANGED <<has_assists, has_avic, has_flush_by_asid, linux, vmcb,
                   guest_regs, stats, seen, npt, mapped, globalVars>>

\* vcpu_activate_vmm, called after vcpu_init has returned 0: it writes the
\* PAT MSR and enters the guest with the control block vcpu_init built.
vcpu_activate_vmm ==
    /\ pc = "initialized"
    /\ pc' = "guest"
    /\ host' = [host EXCEPT !.pat = PAT_RESET_VALUE]
    /\ last' = [NoLast EXCEPT !.op = "vcpu_activate_vmm", !.pre = vmcb,
                              !.prehost = host,
                              !.calls = {"clgi", "vmload", "vmrun"},
                              !.msrs = {"MSR_IA32_PAT"}]
    /\ UNCHANGED <<svm_state, has_assists, has_avic, has_flush_by_asid, linux,
                   vmcb, guest_regs, stats, seen, npt, mapped, globalVars>>

(***************************************************************************)
(* Helpers of the emulators.  They work on the context of one handler      *)
(* invocation: the control block, the guest registers, the statistics, the *)
(* host MSRs, and the record of what the invocation has done so far.       *)
(***************************************************************************)
\* The context a handler starts from.
Context(v, regs) ==
    [vmcb |-> v, regs |-> regs, stats |-> stats, host |-> host,
     pc |-> "guest", flushes |-> 0, msrs |-> {}, calls |-> {},
     dumped |-> FALSE, reset |-> FALSE, ok |-> FALSE]

vcpu_tlb_flush(c) ==
    [c EXCEPT !.vmcb.tlb_control =
                  IF has_flush_by_asid THEN SVM_TLB_FLUSH_GUEST
                                       ELSE SVM_TLB_FLUSH_ALL,
              !.flushes = @ + 1]

vcpu_skip_emulated_instruction(c, inst_len) ==
    [c EXCEPT !.vmcb.rip = @ + inst_len]

\* Mutant: long mode is activated without a flush.
update_efer_no_flush(c) ==
    IF BitAnd(c.vmcb.efer, EFER_LME \cup EFER_LMA) # EFER_LME
    THEN c
    ELSE [c EXCEPT !.vmcb.efer = BitOr(@, EFER_LMA),
                   !.vmcb.clean_bits = @ \ CLEAN_BITS_CRX]

update_efer(c) ==
    IF BitAnd(c.vmcb.efer, EFER_LME \cup EFER_LMA) # EFER_LME
    THEN c
    ELSE LET efer == BitOr(c.vmcb.efer, EFER_LMA)
             c1 == IF BitAnd(BitXor(c.vmcb.efer, efer), EFER_LMA) # {}
                   THEN vcpu_tlb_flush(c)
                   ELSE c
         IN  [c1 EXCEPT !.vmcb.efer = efer,
                        !.vmcb.clean_bits = @ \ CLEAN_BITS_CRX]

\* Mutant: the reset leaves the clean bits as they are.
svm_vcpu_reset_keeps_clean_bits(c, sipi_vector) ==
    LET bsp == sipi_vector = APIC_BSP_PSEUDO_SIPI
        vec == IF bsp THEN 240 ELSE sipi_vector
    IN  [c EXCEPT
            !.vmcb = svm_set_cell_config(
                [@ EXCEPT
                    !.cr0 = X86_CR0_NW \cup X86_CR0_CD \cup X86_CR0_ET,
                    !.cr3 = {},
                    !.cr4 = {},
                    !.rip = IF bsp THEN 65520 ELSE 0,
                    !.rsp = 0,
                    !.cs_selector = vec * 256,
                    !.cs_base = vec * 4096,
                    !.ds_selector = 0,
                    !.es_selector = 0,
                    !.fs_selector = 0,
                    !.fs_base = 0,
                    !.gs_selector = 0,
                    !.gs_base = 0,
                    !.tr_selector = 0,
                    !.gdtr_base = 0,
                    !.gdtr_limit = 65535,
                    !.idtr_base = 0,
                    !.idtr_limit = 65535,
                    !.efer = EFER_SVME,
                    !.star = 0,
                    !.lstar = 0,
                    !.cstar = 0,
                    !.sfmask = 0,
                    !.sysenter_cs = 0,
                    !.sysenter_eip = 0,
                    !.sysenter_esp = 0,
                    !.kerngsbase = 0,
                    !.g_pat = PAT_RESET_VALUE]),
            !.reset = TRUE]

svm_vcpu_reset(c, sipi_vector) ==
    LET bsp == sipi_vector = APIC_BSP_PSEUDO_SIPI
        vec == IF bsp THEN 240 ELSE sipi_vector
    IN  [c EXCEPT
            !.vmcb = svm_set_cell_config(
                [@ EXCEPT
                    !.cr0 = X86_CR0_NW \cup X86_CR0_CD \cup X86_CR0_ET,
                    !.cr3 = {},
                    !.cr4 = {},
                    !.rip = IF bsp THEN 65520 ELSE 0,
                    !.rsp = 0,
                    !.cs_selector = vec * 256,
                    !.cs_base = vec * 4096,
                    !.ds_selector = 0,
                    !.es_selector = 0,
                    !.fs_selector = 0,
                    !.fs_base = 0,
                    !.gs_selector = 0,
                    !.gs_base = 0,
                    !.tr_selector = 0,
                    !.gdtr_base = 0,
                    !.gdtr_limit = 65535,
                    !.idtr_base = 0,
                    !.idtr_limit = 65535,
                    !.efer = EFER_SVME,
                    !.star = 0,
                    !.lstar = 0,
                    !.cstar = 0,
                    !.sfmask = 0,
                    !.sysenter_cs = 0,
                    !.sysenter_eip = 0,
                    !.sysenter_esp = 0,
                    !.kerngsbase = 0,
                    !.g_pat = PAT_RESET_VALUE,
                    !.clean_bits = {}]),
            !.reset = TRUE]

\* Mutant: long mode needs both the enable and the active bit.
vcpu_get_guest_paging_structs_lme_and_lma(v) ==
    IF BitAnd(v.efer, EFER_LMA) # {} /\ BitAnd(v.efer, EFER_LME) # {}
    THEN [ok |-> TRUE, root_paging |-> "x86_64_paging",
          root_table_gphys |-> BitAnd(v.cr3, 12..51)]
    ELSE IF BitAnd(v.cr0, X86_CR0_PG) # {} /\ BitAnd(v.cr4, X86_CR4_PAE) = {}
    THEN [ok |-> TRUE, root_paging |-> "i386_paging",
          root_table_gphys |-> BitAnd(v.cr3, 12..31)]
    ELSE IF BitAnd(v.cr0, X86_CR0_PG) = {}
    THEN [ok |-> TRUE, root_paging |-> "realmode_paging",
          root_table_gphys |-> BitsOf(1044480)]
    ELSE [ok |-> FALSE, root_paging |-> "none", root_table_gphys |-> {}]

\* The three guest paging modes; ok = FALSE is the unsupported combination.
vcpu_get_guest_paging_structs(v) ==
    IF BitAnd(v.efer, EFER_LMA) # {}
    THEN [ok |-> TRUE, root_paging |-> "x86_64_paging",
          root_table_gphys |-> BitAnd(v.cr3, 12..51)]
    ELSE IF BitAnd(v.cr0, X86_CR0_PG) # {} /\ BitAnd(v.cr4, X86_CR4_PAE) = {}
    THEN [ok |-> TRUE, root_paging |-> "i386_paging",
          root_table_gphys |-> BitAnd(v.cr3, 12..31)]
    ELSE IF BitAnd(v.cr0, X86_CR0_PG) = {}
    THEN [ok |-> TRUE, root_paging |-> "realmode_paging",
          root_table_gphys |-> BitsOf(1044480)]
    ELSE [ok |-> FALSE, root_paging |-> "none", root_table_gphys |-> {}]


(***************************************************************************)
(* Instruction decode helper (used without decode assists).  ext.guest    *)
(* are the guest bytes at cs_base + rip + i, ext.inst the bytes read        *)
(* through the pointer vcpu_map_inst returned, ext.map_size the number of  *)
(* bytes from cs_base + rip to the end of the guest page (3 when the       *)
(* instruction does not reach it), which bounds the size vcpu_map_inst     *)
(* reports, and ext.map_ok whether the page could be mapped.  Up to the    *)
(* end of the page ext.inst are the guest bytes; past it they are whatever *)
(* follows the mapped page in the hypervisor's address space.  Positions   *)
(* are offsets from the guest address cs_base + rip.                       *)
(***************************************************************************)
Min(a, b) == IF a <= b THEN a ELSE b

\* The value of a bit vector that fits a byte.
BitVal(s) == CHOOSE n \in 0..255 : BitsOf(n) = s

ctx_advance(ctx, ext) ==
    IF ctx.size # 0
    THEN ctx
    ELSE IF ~ext.map_ok
    THEN [ctx EXCEPT !.ok = FALSE]
    ELSE LET sz == Min(ctx.remaining, ext.map_size)
         IN  [ctx EXCEPT !.size = sz, !.inst = ctx.pc,
                         !.remaining = @ - sz, !.pc = @ + sz]

\* ctx.inst++ after a successful advance
NextByte(ctx) == IF ctx.ok THEN [ctx EXCEPT !.inst = @ + 1] ELSE ctx

\* One iteration of the opcode loop: compare, advance, then ctx.inst++.
ParseOpcode(ctx, opcode, ext) ==
    IF ~ctx.ok
    THEN ctx
    ELSE IF ext.inst[ctx.inst + 1] # opcode
    THEN [ctx EXCEPT !.ok = FALSE]
    ELSE NextByte(ctx_advance(ctx, ext))

\* The advance before the ModRM byte is read.
AdvanceToModrm(ctx, ext) == IF ctx.ok THEN ctx_advance(ctx, ext) ELSE ctx

\* The ModRM byte names the control register and the source register.
ParseModrm(ctx, reg, ext) ==
    IF ~ctx.ok
    THEN [ok |-> FALSE, gpr |-> 0]
    ELSE IF (ext.inst[ctx.inst + 1] \div 8) % 8 # reg
    THEN [ok |-> FALSE, gpr |-> 0]
    ELSE [ok |-> TRUE, gpr |-> ext.inst[ctx.inst + 1] % 8]

x86_parse_mov_to_cr(v, reg, ext) ==
    IF ~vcpu_get_guest_paging_structs(v).ok
    THEN [ok |-> FALSE, gpr |-> 0]
    ELSE ParseModrm(
             AdvanceToModrm(
                 ParseOpcode(
                     ParseOpcode(
                         ctx_advance([remaining |-> 2, size |-> 0, inst |-> 0,
                                      pc |-> 0, ok |-> TRUE], ext),
                         15, ext),
                     34, ext),
                 ext),
             reg, ext)

(***************************************************************************)
(* Sensitive-operation emulators.  c.ok is the handler's return value.     *)
(***************************************************************************)
\* The decode of the faulting instruction: from the decode assists, or by
\* parsing the instruction bytes.
DecodeMovToCr0(c, exitinfo1, ext) ==
    IF has_assists
    THEN IF 63 \notin exitinfo1
         THEN [ok |-> FALSE, gpr |-> 0]
         ELSE [ok |-> TRUE, gpr |-> BitVal(BitAnd(exitinfo1, 0..2))]
    ELSE x86_parse_mov_to_cr(c.vmcb, 0, ext)

\* The value of the source register: rsp comes from the control block.
CrSourceValue(c, reg) ==
    IF reg = 4 THEN BitsOf(c.vmcb.rsp) ELSE c.regs[15 - reg]

\* Flush when a bit that affects the TLB changes.
Cr0FlushOnChange(c, val) ==
    IF BitAnd(BitXor(val, c.vmcb.cr0),
              X86_CR0_PG \cup X86_CR0_WP \cup X86_CR0_CD \cup X86_CR0_NW) # {}
    THEN vcpu_tlb_flush(c)
    ELSE c

Cr0Store(c, val) ==
    [c EXCEPT !.vmcb.cr0 = BitAnd(val, SVM_CR0_ALLOWED_BITS)]

Cr0UpdateEfer(c, val) ==
    IF BitAnd(val, X86_CR0_PG) # {} THEN update_efer(c) ELSE c

\* Mutant: the CR0 store leaves the control-register clean bit set.
Cr0Write_leaves_crx_clean(c, val) ==
    [Cr0UpdateEfer(Cr0Store(Cr0FlushOnChange(c, val), val), val)
       EXCEPT !.ok = TRUE]

\* svm_handle_cr once the instruction is decoded
Cr0Write(c, val) ==
    [Cr0UpdateEfer(Cr0Store(Cr0FlushOnChange(c, val), val), val)
       EXCEPT !.vmcb.clean_bits = @ \ CLEAN_BITS_CRX, !.ok = TRUE]

\* Mutant: the instruction is skipped before the decode result is tested.
Cr0Emulate_skip_before_decode(c, dec) ==
    IF ~dec.ok
    THEN [vcpu_skip_emulated_instruction(c, X86_INST_LEN_MOV_TO_CR)
            EXCEPT !.ok = FALSE]
    ELSE Cr0Write(vcpu_skip_emulated_instruction(c, X86_INST_LEN_MOV_TO_CR),
                  CrSourceValue(c, dec.gpr))

Cr0Emulate(c, dec) ==
    IF ~dec.ok
    THEN [c EXCEPT !.ok = FALSE]
    ELSE Cr0Write(vcpu_skip_emulated_instruction(c, X86_INST_LEN_MOV_TO_CR),
                  CrSourceValue(c, dec.gpr))

svm_handle_cr(c, exitinfo1, ext) ==
    Cr0Emulate(c, DecodeMovToCr0(c, exitinfo1, ext))

\* Mutant: the last register of the x2APIC range is left out.
InX2ApicRange_exclusive_end(rcx) ==
    ULessEq(MSR_X2APIC_BASE, rcx) /\ ULess(rcx, MSR_X2APIC_END)

InX2ApicRange(rcx) ==
    ULessEq(MSR_X2APIC_BASE, rcx) /\ ULessEq(rcx, MSR_X2APIC_END)

\* x2apic_handle_read of the interrupt-controller emulation
x2apic_handle_read(c) == [c EXCEPT !.calls = @ \cup {"x2apic_handle_read"}]

\* x2apic_handle_write of the interrupt-controller emulation; ext.x2apic_ok
\* is its verdict on the written value
x2apic_handle_write(c, ext) ==
    [c EXCEPT !.calls = @ \cup {"x2apic_handle_write"}, !.ok = ext.x2apic_ok]

write_msr(c, msr, val) ==
    [c EXCEPT !.msrs = @ \cup {msr},
              !.host = IF msr = "MSR_IA32_PAT" THEN [@ EXCEPT !.pat = val] ELSE @]

svm_handle_msr_read(c) ==
    IF InX2ApicRange(c.regs[RCX])
    THEN [x2apic_handle_read(
              vcpu_skip_emulated_instruction(c, X86_INST_LEN_RDMSR))
            EXCEPT !.ok = TRUE]
    ELSE [c EXCEPT !.ok = FALSE]

\* Mutant: the EFER write stores the guest's value without forcing SVME.
svm_handle_msr_write_guest_efer(c, ext) ==
    LET rcx == c.regs[RCX]
        r == IF InX2ApicRange(rcx)
             THEN x2apic_handle_write(c, ext)
             ELSE IF rcx = MSR_EFER
             THEN LET efer == BitOr(Low32(c.regs[RAX]), Shl(c.regs[RDX], 32))
                      c1 == IF BitAnd(BitXor(efer, c.vmcb.efer),
                                      EFER_LME \cup EFER_NXE) # {}
                            THEN vcpu_tlb_flush(c)
                            ELSE c
                  IN  [c1 EXCEPT !.vmcb.efer = efer,
                                 !.vmcb.clean_bits = @ \ CLEAN_BITS_CRX,
                                 !.ok = TRUE]
             ELSE IF rcx = MTRR_DEFTYPE
             THEN LET val == BitOr(Low32(c.regs[RAX]), Shl(c.regs[RDX], 32))
                  IN  [write_msr(c, "MSR_IA32_PAT",
                                 IF BitAnd(val, {11}) # {}
                                 THEN PAT_RESET_VALUE ELSE {})
                         EXCEPT !.ok = TRUE]
             ELSE [c EXCEPT !.ok = FALSE]
    IN  IF r.ok THEN vcpu_skip_emulated_instruction(r, X86_INST_LEN_WRMSR)
        ELSE r

\* Mutant: only a change of LME flushes.
svm_handle_msr_write_flush_on_lme_only(c, ext) ==
    LET rcx == c.regs[RCX]
        r == IF InX2ApicRange(rcx)
             THEN x2apic_handle_write(c, ext)
             ELSE IF rcx = MSR_EFER
             THEN LET efer == BitOr(BitOr(Low32(c.regs[RAX]),
                                          Shl(c.regs[RDX], 32)), EFER_SVME)
                      c1 == IF BitAnd(BitXor(efer, c.vmcb.efer),
                                      EFER_LME) # {}
                            THEN vcpu_tlb_flush(c)
                            ELSE c
                  IN  [c1 EXCEPT !.vmcb.efer = efer,
                                 !.vmcb.clean_bits = @ \ CLEAN_BITS_CRX,
                                 !.ok = TRUE]
             ELSE IF rcx = MTRR_DEFTYPE
             THEN LET val == BitOr(Low32(c.regs[RAX]), Shl(c.regs[RDX], 32))
                  IN  [write_msr(c, "MSR_IA32_PAT",
                                 IF BitAnd(val, {11}) # {}
                                 THEN PAT_RESET_VALUE ELSE {})
                         EXCEPT !.ok = TRUE]
             ELSE [c EXCEPT !.ok = FALSE]
    IN  IF r.ok THEN vcpu_skip_emulated_instruction(r, X86_INST_LEN_WRMSR)
        ELSE r

svm_handle_msr_write(c, ext) ==
    LET rcx == c.regs[RCX]
        r == IF InX2ApicRange(rcx)
             THEN x2apic_handle_write(c, ext)
             ELSE IF rcx = MSR_EFER
             THEN LET efer == BitOr(BitOr(Low32(c.regs[RAX]),
                                          Shl(c.regs[RDX], 32)), EFER_SVME)
                      c1 == IF BitAnd(BitXor(efer, c.vmcb.efer),
                                      EFER_LME \cup EFER_NXE) # {}
                            THEN vcpu_tlb_flush(c)
                            ELSE c
                  IN  [c1 EXCEPT !.vmcb.efer = efer,
                                 !.vmcb.clean_bits = @ \ CLEAN_BITS_CRX,
                                 !.ok = TRUE]
             ELSE IF rcx = MTRR_DEFTYPE
             THEN LET val == BitOr(Low32(c.regs[RAX]), Shl(c.regs[RDX], 32))
                  IN  [write_msr(c, "MSR_IA32_PAT",
                                 IF BitAnd(val, {11}) # {}
                                 THEN PAT_RESET_VALUE ELSE {})
                         EXCEPT !.ok = TRUE]
             ELSE [c EXCEPT !.ok = FALSE]
    IN  IF r.ok THEN vcpu_skip_emulated_instruction(r, X86_INST_LEN_WRMSR)
        ELSE r

\* ext.apic_len is the result of apic_mmio_access: the instruction length,
\* or 0 on failure.
svm_handle_apic_access(c, exitinfo1, exitinfo2, ext) ==
    LET offset == exitinfo2 \ XAPIC_BASE
        pg == vcpu_get_guest_paging_structs(c.vmcb)
        c1 == [c EXCEPT !.calls = @ \cup {"apic_mmio_access"}]
    IN  IF BitAnd(offset, 0..3) # {}
        THEN [c EXCEPT !.ok = FALSE]
        ELSE IF ~pg.ok
        THEN [c EXCEPT !.ok = FALSE]
        ELSE IF ext.apic_len = 0
        THEN [c1 EXCEPT !.ok = FALSE]
        ELSE [vcpu_skip_emulated_instruction(c1, ext.apic_len)
                EXCEPT !.ok = TRUE]


(***************************************************************************)
(* The VM-exit dispatcher.                                                 *)
(***************************************************************************)
IncStat(c, cat) == [c EXCEPT !.stats[cat] = @ + 1]

\* What cpuid_eax(0x0d) reports as the supported XCR0 bits: x87, SSE, AVX.
\* cpuid_eax returns an unsigned int, so its complement has 32 bits.
CpuidXcr0 == {0, 1, 2}

\* Start of vcpu_handle_exit, up to the switch on the exit code.
\* Mutant: the prologue does not set the clean bits.
ExitPrologue_keeps_clean_bits(v, regs) ==
    IncStat([Context(v, regs) EXCEPT !.msrs = {"MSR_GS_BASE"}], "TOTAL")

ExitPrologue(v, regs) ==
    IncStat([Context(v, regs) EXCEPT !.vmcb.clean_bits = CLEAN_BITS_ALL,
                                     !.msrs = {"MSR_GS_BASE"}],
            "TOTAL")

\* Mutant: an invalid-entry exit returns to the guest.
exit_invalid_returns(c) == [c EXCEPT !.ok = TRUE]

exit_invalid(c) == [c EXCEPT !.ok = FALSE]

\* Mutant: every NMI exit resets the CPU, with or without a startup vector.
exit_nmi_always_resets(c, ext) ==
    LET c1 == [IncStat(c, "MANAGEMENT")
                 EXCEPT !.calls = @ \cup {"x86_handle_events"}]
        c2 == [svm_vcpu_reset(c1, ext.sipi) EXCEPT !.regs = ZeroRegs]
    IN  [c2 EXCEPT !.calls = @ \cup {"iommu_check_pending_faults"},
                   !.ok = TRUE]

\* Mutant: the reset on a startup vector leaves the guest registers.
exit_nmi_keeps_regs(c, ext) ==
    LET c1 == [IncStat(c, "MANAGEMENT")
                 EXCEPT !.calls = @ \cup {"x86_handle_events"}]
        c2 == IF ext.sipi >= 0
              THEN svm_vcpu_reset(c1, ext.sipi)
              ELSE c1
    IN  [c2 EXCEPT !.calls = @ \cup {"iommu_check_pending_faults"},
                   !.ok = TRUE]

\* ext.sipi is the result of x86_handle_events.
exit_nmi(c, ext) ==
    LET c1 == [IncStat(c, "MANAGEMENT")
                 EXCEPT !.calls = @ \cup {"x86_handle_events"}]
        c2 == IF ext.sipi >= 0
              THEN [svm_vcpu_reset(c1, ext.sipi) EXCEPT !.regs = ZeroRegs]
              ELSE c1
    IN  [c2 EXCEPT !.calls = @ \cup {"iommu_check_pending_faults"},
                   !.ok = TRUE]

exit_cpuid(c) == [c EXCEPT !.ok = TRUE]

\* The hypercall collaborator counts the hypercall.
vcpu_handle_hypercall(c) ==
    [IncStat(c, "HYPERCALL") EXCEPT !.calls = @ \cup {"vcpu_handle_hypercall"}]

exit_vmmcall(c) == [vcpu_handle_hypercall(c) EXCEPT !.ok = TRUE]

\* Mutant: the control-register exit is not counted.
exit_cr0_sel_write_uncounted(c, exitinfo1, ext) ==
    svm_handle_cr(c, exitinfo1, ext)

exit_cr0_sel_write(c, exitinfo1, ext) ==
    svm_handle_cr(IncStat(c, "CR"), exitinfo1, ext)

exit_msr(c, exitinfo1, ext) ==
    LET c1 == IncStat(c, "MSR")
    IN  IF exitinfo1 = {}
        THEN svm_handle_msr_read(c1)
        ELSE svm_handle_msr_write(c1, ext)

IsApicAccess(exitinfo1, exitinfo2) ==
    /\ BitAnd(exitinfo1, 0..2) = 0..2
    /\ ULessEq(XAPIC_BASE, exitinfo2)
    /\ ULess(exitinfo2, XAPIC_END)

\* Mutant: the fault is routed by its address alone.
exit_npf_ignores_error_code(c, exitinfo1, exitinfo2, ext) ==
    IF ULessEq(XAPIC_BASE, exitinfo2) /\ ULess(exitinfo2, XAPIC_END)
    THEN svm_handle_apic_access(IncStat(c, "XAPIC"), exitinfo1, exitinfo2, ext)
    ELSE [IncStat(c, "MMIO")
            EXCEPT !.calls = @ \cup {"vcpu_handle_pt_violation"},
                   !.ok = ext.pt_ok]

\* ext.pt_ok is the result of vcpu_handle_pt_violation.
exit_npf(c, exitinfo1, exitinfo2, ext) ==
    IF IsApicAccess(exitinfo1, exitinfo2)
    THEN svm_handle_apic_access(IncStat(c, "XAPIC"), exitinfo1, exitinfo2, ext)
    ELSE [IncStat(c, "MMIO")
            EXCEPT !.calls = @ \cup {"vcpu_handle_pt_violation"},
                   !.ok = ext.pt_ok]

\* Mutant: the requested bits are not checked against the supported set.
exit_xsetbv_no_reserved_check(c) ==
    LET c1 == IncStat(c, "XSETBV")
        rax == c.regs[RAX]
    IN  IF /\ BitAnd(rax, X86_XCR0_FP) # {}
           /\ c.regs[RCX] = {}
           /\ c.regs[RDX] = {}
        THEN [vcpu_skip_emulated_instruction(c1, X86_INST_LEN_XSETBV)
                EXCEPT !.host.xcr0 = Low32(rax),
                       !.calls = @ \cup {"xsetbv"},
                       !.ok = TRUE]
        ELSE [c1 EXCEPT !.ok = FALSE]

exit_xsetbv(c) ==
    LET c1 == IncStat(c, "XSETBV")
        rax == c.regs[RAX]
    IN  IF /\ BitAnd(rax, X86_XCR0_FP) # {}
           /\ BitAnd(rax, Low32(BitNot(CpuidXcr0))) = {}
           /\ c.regs[RCX] = {}
           /\ c.regs[RDX] = {}
        THEN [vcpu_skip_emulated_instruction(c1, X86_INST_LEN_XSETBV)
                EXCEPT !.host.xcr0 = Low32(rax),
                       !.calls = @ \cup {"xsetbv"},
                       !.ok = TRUE]
        ELSE [c1 EXCEPT !.ok = FALSE]

\* ext.io_ok is the result of vcpu_handle_io_access.
exit_ioio(c, ext) ==
    [IncStat(c, "PIO") EXCEPT !.calls = @ \cup {"vcpu_handle_io_access"},
                              !.ok = ext.io_ok]

exit_default(c) == [c EXCEPT !.ok = FALSE]

dump_guest_regs(c) == [c EXCEPT !.dumped = TRUE]

\* panic_park: the physical CPU is stopped and enters no guest again.
panic_park(c) == [c EXCEPT !.pc = "stopped"]

\* Mutant: the state is dumped but the CPU is not parked.
FatalPath_no_park(c) == dump_guest_regs(c)

\* The bottom of vcpu_handle_exit, reached by every break of the switch.
FatalPath(c) == panic_park(dump_guest_regs(c))

\* A handler that returns true resumes the guest; a break reaches the
\* fatal path.
ExitEpilogue(c) == IF c.ok THEN c ELSE FatalPath(c)

Dispatch(c, exitcode, exitinfo1, exitinfo2, ext) ==
    CASE exitcode = VMEXIT_INVALID -> exit_invalid(c)
      [] exitcode = VMEXIT_NMI -> exit_nmi(c, ext)
      [] exitcode = VMEXIT_CPUID -> exit_cpuid(c)
      [] exitcode = VMEXIT_VMMCALL -> exit_vmmcall(c)
      [] exitcode = VMEXIT_CR0_SEL_WRITE -> exit_cr0_sel_write(c, exitinfo1, ext)
      [] exitcode = VMEXIT_MSR -> exit_msr(c, exitinfo1, ext)
      [] exitcode = VMEXIT_NPF -> exit_npf(c, exitinfo1, exitinfo2, ext)
      [] exitcode = VMEXIT_XSETBV -> exit_xsetbv(c)
      [] exitcode = VMEXIT_IOIO -> exit_ioio(c, ext)
      [] OTHER -> exit_default(c)

\* The category an exit is counted under ("NONE": under the total only).
ExitCategory(exitcode, exitinfo1, exitinfo2) ==
    CASE exitcode = VMEXIT_NMI -> "MANAGEMENT"
      [] exitcode = VMEXIT_VMMCALL -> "HYPERCALL"
      [] exitcode = VMEXIT_CR0_SEL_WRITE -> "CR"
      [] exitcode = VMEXIT_MSR -> "MSR"
      [] exitcode = VMEXIT_NPF ->
            IF IsApicAccess(exitinfo1, exitinfo2) THEN "XAPIC" ELSE "MMIO"
      [] exitcode = VMEXIT_XSETBV -> "XSETBV"
      [] exitcode = VMEXIT_IOIO -> "PIO"
      [] OTHER -> "NONE"

\* One #VMEXIT: the hardware has stored the guest state (v: the control
\* block as it stands at the exit, regs: the guest's registers) and
\* vcpu_handle_exit runs to its return or to panic_park.
vcpu_handle_exit(exitcode, exitinfo1, exitinfo2, v, regs, ext) ==
    /\ pc = "guest"
    /\ stats["TOTAL"] < MaxExits
    /\ \E f \in {ExitEpilogue(Dispatch(ExitPrologue(v, regs), exitcode,
                                        exitinfo1, exitinfo2, ext))} :
           /\ vmcb' = f.vmcb
           /\ guest_regs' = f.regs
           /\ stats' = f.stats
           /\ host' = f.host
           /\ pc' = f.pc
           /\ last' = [op |-> "exit", exitcode |-> exitcode,
                       exitinfo1 |-> exitinfo1, exitinfo2 |-> exitinfo2,
                       regs |-> regs, ext |-> ext, pre |-> v, prehost |-> host,
                       result |-> IF f.ok THEN "resume" ELSE "fatal",
                       clean0 |-> ExitPrologue(v, regs).vmcb.clean_bits,
                       flushes |-> f.flushes, msrs |-> f.msrs,
                       calls |-> f.calls, dumped |-> f.dumped,
                       reset |-> f.reset,
                       cell |-> "none", mem |-> NoMem, err |-> 0,
                       reg |-> 0, dec |-> NoDecode, pg |-> NoPaging,
                       query |-> NoQuery, buffer |-> <<>>,
                       fetch |-> NoFetch]
    /\ seen' = [seen EXCEPT
                   !["TOTAL"] = @ + 1,
                   ![ExitCategory(exitcode, exitinfo1, exitinfo2)] = @ + 1]
    /\ UNCHANGED <<svm_state, has_assists, has_flush_by_asid, has_avic,
                   linux, npt, mapped, globalVars>>


(***************************************************************************)
(* Parking.                                                                *)
(***************************************************************************)
\* Mutant: the CPU is reset but keeps the cell's nested page table.
ParkedVmcb_keeps_cell_npt(c) ==
    vcpu_tlb_flush(svm_vcpu_reset(c, APIC_BSP_PSEUDO_SIPI))

ParkedVmcb(c) ==
    vcpu_tlb_flush(
        [svm_vcpu_reset(c, APIC_BSP_PSEUDO_SIPI)
           EXCEPT !.vmcb.n_cr3 = "parked_mode_npt"])

\* Mutant: parking empties the parked-mode table.
vcpu_park_clears_parking_table ==
    LET c == ParkedVmcb(Context(vmcb, guest_regs))
    IN  /\ pc = "guest"
        /\ vmcb' = c.vmcb
        /\ parked_mode_npt' = EmptyTable
        /\ last' = [NoLast EXCEPT !.op = "vcpu_park", !.pre = vmcb,
                                  !.prehost = host, !.regs = guest_regs,
                                  !.flushes = c.flushes, !.reset = c.reset]
        /\ UNCHANGED <<pc, svm_state, has_assists, has_flush_by_asid, has_avic,
                       linux, host, guest_regs, stats, seen, npt, mapped,
                       hw, vendor, msrpm, avic_page>>

vcpu_park ==
    LET c == ParkedVmcb(Context(vmcb, guest_regs))
    IN  /\ pc = "guest"
        /\ vmcb' = c.vmcb
        /\ last' = [NoLast EXCEPT !.op = "vcpu_park", !.pre = vmcb,
                                  !.prehost = host, !.regs = guest_regs,
                                  !.flushes = c.flushes, !.reset = c.reset]
        /\ UNCHANGED <<pc, svm_state, has_assists, has_flush_by_asid, has_avic,
                       linux, host, guest_regs, stats, seen, npt, mapped,
                       globalVars>>

(***************************************************************************)
(* The exits the model takes, one action per exit code, with the guest     *)
(* register values, exit information and collaborator results drawn from   *)
(* small sets.                                                             *)
(***************************************************************************)
Cr0Base == X86_CR0_PE \cup X86_CR0_ET

Cr0Inputs ==
    { Cr0Base,
      Cr0Base \cup X86_CR0_PG \cup X86_CR0_WP,
      Cr0Base \cup X86_CR0_PG \cup X86_CR0_NW,
      X86_CR0_ET \cup X86_CR0_CD \cup X86_CR0_NW }

\* mov %rax,%cr0 / mov %rbx,%cr0 / mov %rsp,%cr0 / mov %rax,%cr4 /
\* the same with an operand-size prefix / mov %cr0,%rax
MovRaxCr0 == <<15, 34, 192>>
\* mov %rax,%cr0 with a REX prefix that selects nothing (40 0f 22 c0)
RexMovRaxCr0 == <<64, 15, 34, 192>>

CrExitInputs ==
    [val : Cr0Inputs, info1 : {{63}}, inst : {MovRaxCr0}, map_ok : {TRUE},
     map_size : {3}, cr4 : {{}}]
    \cup
    [val : {Cr0Base \cup X86_CR0_PG \cup X86_CR0_WP},
     info1 : {{63, 0, 1}}, inst : {<<15, 34, 195>>}, map_ok : {TRUE},
     map_size : {1}, cr4 : {{}}]
    \cup
    [val : {Cr0Base}, info1 : {{63, 2}}, inst : {<<15, 34, 196>>},
     map_ok : {TRUE}, map_size : {3}, cr4 : {{}}]
    \cup
    [val : {Cr0Base}, info1 : {{}},
     inst : {<<102, 15, 34>>},
     map_ok : {TRUE}, map_size : {3}, cr4 : {{}}]
    \cup
    [val : {Cr0Base}, info1 : {{63}}, inst : {MovRaxCr0}, map_ok : {FALSE},
     map_size : {3}, cr4 : {{}}]
    \cup
    [val : {Cr0Base}, info1 : {{63}}, inst : {RexMovRaxCr0}, map_ok : {TRUE},
     map_size : {3}, cr4 : {{}}]
    \cup
    [val : {Cr0Base \cup X86_CR0_PG \cup X86_CR0_WP}, info1 : {{63}},
     inst : {MovRaxCr0}, map_ok : {TRUE}, map_size : {3},
     cr4 : {X86_CR4_PAE}]

MsrExitInputs ==
    [rcx : {MSR_EFER}, info1 : {{0}},
     rax : {{}, EFER_LME, EFER_LME \cup EFER_LMA}, rdx : {{}},
     x2apic_ok : {TRUE}]
    \cup
    [rcx : {MSR_EFER}, info1 : {{0}},
     rax : {EFER_LME \cup EFER_NXE \cup {40}}, rdx : {{0, 33}},
     x2apic_ok : {TRUE}]
    \cup
    [rcx : {MTRR_DEFTYPE}, info1 : {{0}}, rax : {{}, {11}}, rdx : {{}},
     x2apic_ok : {TRUE}]
    \cup
    [rcx : {MSR_X2APIC_BASE}, info1 : {{}}, rax : {{}}, rdx : {{}},
     x2apic_ok : {TRUE}]
    \cup
    [rcx : {MSR_X2APIC_END}, info1 : {{0}}, rax : {{}}, rdx : {{}},
     x2apic_ok : {TRUE}]
    \cup
    [rcx : {BitsOf(2059)}, info1 : {{0}}, rax : {{}}, rdx : {{}},
     x2apic_ok : {FALSE}]
    \cup
    [rcx : {MSR_EFER}, info1 : {{}}, rax : {{}}, rdx : {{}},
     x2apic_ok : {TRUE}]
    \cup
    [rcx : {BitsOf(2047), BitsOf(2112), MSR_EFER \cup {32}}, info1 : {{0}},
     rax : {EFER_LME}, rdx : {{}}, x2apic_ok : {TRUE}]

NpfExitInputs ==
    [info1 : {{0, 1, 2}}, info2 : {XAPIC_BASE \cup {4, 5}}, apic_len : {0, 3},
     pt_ok : {TRUE}]
    \cup
    [info1 : {{0, 1, 2}}, info2 : {XAPIC_BASE \cup {2}}, apic_len : {3},
     pt_ok : {TRUE}]
    \cup
    [info1 : {{0, 1}}, info2 : {XAPIC_BASE}, apic_len : {3}, pt_ok : {TRUE}]
    \cup
    [info1 : {{0, 1, 2}}, info2 : {XAPIC_END}, apic_len : {3},
     pt_ok : {FALSE}]
    \cup
    [info1 : {{0, 1, 2, 3}}, info2 : {XAPIC_BASE \cup {4}}, apic_len : {3},
     pt_ok : {TRUE}]

XsetbvExitInputs ==
    [rax : {{0, 1, 2}, {1}, {0, 9}, {0, 32}, {0, 1, 2, 63}}, rcx : {{}},
     rdx : {{}}]
    \cup [rax : {{0}}, rcx : {{0}}, rdx : {{}}]
    \cup [rax : {{0}}, rcx : {{}}, rdx : {{0}}]

SipiInputs == {-1, 16, APIC_BSP_PSEUDO_SIPI}

ExitInvalid ==
    vcpu_handle_exit(VMEXIT_INVALID, {}, {}, vmcb, guest_regs, NoExt)

ExitNmi ==
    \E sipi \in SipiInputs :
        vcpu_handle_exit(VMEXIT_NMI, {}, {}, vmcb, guest_regs,
                         [NoExt EXCEPT !.sipi = sipi])

ExitCpuid ==
    vcpu_handle_exit(VMEXIT_CPUID, {}, {}, vmcb, guest_regs, NoExt)

ExitVmmcall ==
    vcpu_handle_exit(VMEXIT_VMMCALL, {}, {}, vmcb, guest_regs, NoExt)

ExitCr0SelWrite ==
    \E i \in CrExitInputs :
        vcpu_handle_exit(VMEXIT_CR0_SEL_WRITE, i.info1, {},
                         [vmcb EXCEPT !.cr4 = i.cr4],
                         MkRegs(i.val, {}, {}, i.val \cup {2}),
                         [NoExt EXCEPT !.inst = i.inst, !.guest = i.inst,
                                       !.map_ok = i.map_ok,
                                       !.map_size = i.map_size])

ExitMsr ==
    \E i \in MsrExitInputs :
        vcpu_handle_exit(VMEXIT_MSR, i.info1, {}, vmcb,
                         MkRegs(i.rax, i.rcx, i.rdx, {}),
                         [NoExt EXCEPT !.x2apic_ok = i.x2apic_ok])

ExitNpf ==
    \E i \in NpfExitInputs :
        vcpu_handle_exit(VMEXIT_NPF, i.info1, i.info2, vmcb, guest_regs,
                         [NoExt EXCEPT !.apic_len = i.apic_len,
                                       !.pt_ok = i.pt_ok])

ExitXsetbv ==
    \E i \in XsetbvExitInputs :
        vcpu_handle_exit(VMEXIT_XSETBV, {}, {}, vmcb,
                         MkRegs(i.rax, i.rcx, i.rdx, {}), NoExt)

ExitIoio ==
    \E ok \in BOOLEAN :
        vcpu_handle_exit(VMEXIT_IOIO, {0}, {}, vmcb, guest_regs,
                         [NoExt EXCEPT !.io_ok = ok])

ExitOther ==
    \E code \in {VMEXIT_SHUTDOWN} :
        vcpu_handle_exit(code, {}, {}, vmcb, guest_regs, NoExt)

(***************************************************************************)
(* The decode helper and the paging-mode classification as functions: each *)
(* action applies one of them to inputs drawn from the sets below and      *)
(* records the inputs and the result.                                      *)
(***************************************************************************)
\* First bytes: the opcode escape, operand-size, lock, rep and REX.W
\* prefixes, and other bytes.
FirstByteInputs == {15, 102, 240, 243, 72, 14, 0}
\* Second bytes: mov to CR, mov from CR, and 0x01 (the group of LMSW).
SecondByteInputs == {34, 32, 1}
\* All ModRM bytes with mod = 3, and those with mod = 0.
ModrmInputs == (192..255) \cup (0..63)

DecodeInstInputs ==
    {<<15, 34, m>> : m \in ModrmInputs}
    \cup {<<b, 34, 192>> : b \in FirstByteInputs}
    \cup {<<15, b, 192>> : b \in SecondByteInputs}
    \cup {<<102, 15, 34>>}

\* Guest modes: long mode, real mode, and PAE paging outside long mode.
DecodeVmcbInputs ==
    { [ZeroVmcb EXCEPT !.efer = EFER_SVME \cup EFER_LME \cup EFER_LMA,
                       !.cr0 = X86_CR0_PE \cup X86_CR0_PG,
                       !.cr4 = X86_CR4_PAE, !.rip = 8192],
      [ZeroVmcb EXCEPT !.efer = EFER_SVME, !.cr0 = X86_CR0_ET,
                       !.cs_base = 983040, !.rip = 65520],
      [ZeroVmcb EXCEPT !.efer = EFER_SVME,
                       !.cr0 = X86_CR0_PE \cup X86_CR0_PG,
                       !.cr4 = X86_CR4_PAE] }

\* One call of x86_parse_mov_to_cr for control register reg; the
\* instruction lies within one guest page.
\* Guest instructions that reach over the end of their page.
CrossingGuestInputs == {<<15, 34, 192>>, <<15, 34, 195>>, <<15, 32, 192>>}

\* The two bytes that follow the mapped page in the hypervisor's address
\* space.
HostTailInputs == {<<34, 192>>, <<34, 199>>, <<0, 0>>, <<32, 195>>}

\* What is read through the pointer when n bytes of the guest instruction
\* g lie before the end of the page and the bytes t follow the mapping.
PointerBytes(g, n, t) ==
    <<g[1], IF n >= 2 THEN g[2] ELSE t[1], IF n >= 3 THEN g[3] ELSE t[2]>>

DecodeMemInputs ==
    {[guest |-> i, inst |-> i, map_size |-> 3] : i \in DecodeInstInputs}
    \cup
    {[guest |-> g, inst |-> PointerBytes(g, n, t), map_size |-> n] :
        g \in CrossingGuestInputs, n \in {1, 2}, t \in HostTailInputs}

x86_parse_mov_to_cr_call ==
    /\ last = NoLast
    /\ \E m \in DecodeMemInputs, reg \in 0..8, v \in DecodeVmcbInputs,
          map_ok \in BOOLEAN :
          \E ext \in {[NoExt EXCEPT !.inst = m.inst, !.guest = m.guest,
                                    !.map_size = m.map_size,
                                    !.map_ok = map_ok]} :
             last' = [NoLast EXCEPT !.op = "x86_parse_mov_to_cr",
                                    !.pre = v, !.ext = ext, !.reg = reg,
                                    !.dec = x86_parse_mov_to_cr(v, reg, ext)]
    /\ UNCHANGED <<cpuVars, npt, mapped, globalVars>>

PagingCr3Inputs == {{}, {5, 12, 31}, {0, 11, 12, 32, 51, 52, 63}}

PagingVmcbInputs ==
    {[ZeroVmcb EXCEPT !.efer = EFER_SVME \cup e, !.cr0 = X86_CR0_PE \cup g,
                      !.cr4 = a, !.cr3 = r] :
        e \in SUBSET (EFER_LME \cup EFER_LMA), g \in SUBSET X86_CR0_PG,
        a \in SUBSET X86_CR4_PAE, r \in PagingCr3Inputs}

\* One call of vcpu_get_guest_paging_structs on the guest state v.
vcpu_get_guest_paging_structs_call ==
    /\ last = NoLast
    /\ \E v \in PagingVmcbInputs :
          last' = [NoLast EXCEPT !.op = "vcpu_get_guest_paging_structs",
                                 !.pre = v,
                                 !.pg = vcpu_get_guest_paging_structs(v)]
    /\ UNCHANGED <<cpuVars, npt, mapped, globalVars>>

InitFn ==
    /\ Init
    /\ hw = GoodHw
    /\ host.efer = linux.efer
    /\ BitAnd(linux.cr0, X86_CR0_RESERVED) = {}

(***************************************************************************)
(* The driver's statistics attributes (sysfs.c).                           *)
(***************************************************************************)
\* Bound on the number of CPUs of the system.
MaxCpus == 3

CpuIds == 0..(MaxCpus - 1)

\* The attribute categories read.
StatsAttrInputs == {"TOTAL", "MMIO"}

\* What JAILHOUSE_HC_CPU_GET_INFO returns for one CPU, per category, as the
\* int stats_show stores: a counter value or a negative error code.
CpuInfoInputs ==
    { [TOTAL |-> 2147483647, MMIO |-> 7],
      [TOTAL |-> 100000, MMIO |-> 99999],
      [TOTAL |-> 5, MMIO |-> 0],
      [TOTAL |-> 0, MMIO |-> 0],
      [TOTAL |-> -EPERM, MMIO |-> -EPERM],
      [TOTAL |-> -22, MMIO |-> 3] }

\* An unsigned long as its four 16-bit limbs, lowest first.
ULongZero == <<0, 0, 0, 0>>

\* The unsigned long a positive int converts to.
ULongOf(n) == <<n % 65536, n \div 65536, 0, 0>>

\* The carry out of limb k of a + b.
RECURSIVE CarryOut(_, _, _)
CarryOut(a, b, k) ==
    IF k = 0 THEN 0 ELSE (a[k] + b[k] + CarryOut(a, b, k - 1)) \div 65536

\* Mutant: the sum is kept in 32 bits.
ULongAdd_in_32_bits(a, b) ==
    [k \in 1..4 |-> IF k > 2 THEN 0
                    ELSE (a[k] + b[k] + CarryOut(a, b, k - 1)) % 65536]

\* a + b on unsigned long.
ULongAdd(a, b) ==
    [k \in 1..4 |-> (a[k] + b[k] + CarryOut(a, b, k - 1)) % 65536]

\* The loop of stats_show over the CPUs of the mask from cpu on, in
\* ascending order, with the sum so far.
RECURSIVE StatsSum(_, _, _, _, _)
StatsSum(cpus, info, code, cpu, sum) ==
    IF cpu >= MaxCpus THEN sum
    ELSE StatsSum(cpus, info, code, cpu + 1,
                  IF cpu \in cpus /\ info[cpu + 1][code] > 0
                  THEN ULongAdd(sum, ULongOf(info[cpu + 1][code]))
                  ELSE sum)

DigitChars == <<"0", "1", "2", "3", "4", "5", "6", "7", "8", "9">>

\* The remainder of the limbs of a from limb k up, divided by 10.
RECURSIVE RemFrom(_, _)
RemFrom(a, k) ==
    IF k > 4 THEN 0 ELSE (RemFrom(a, k + 1) * 65536 + a[k]) % 10

\* a divided by 10.
ULongDiv10(a) ==
    [k \in 1..4 |-> (RemFrom(a, k + 1) * 65536 + a[k]) \div 10]

\* The decimal digit characters of a, highest first; none for 0.
RECURSIVE DecimalChars(_)
DecimalChars(a) ==
    IF a = ULongZero THEN <<>>
    ELSE DecimalChars(ULongDiv10(a)) \o <<DigitChars[RemFrom(a, 1) + 1]>>

\* sprintf(buffer, "%lu\n", sum): the characters written.
FormatLu(sum) ==
    IF sum = ULongZero THEN <<"0", "\n">>
    ELSE DecimalChars(sum) \o <<"\n">>

\* stats_show for the attribute code of a cell with the CPUs cpus assigned,
\* info[cpu + 1][code] being the hypercall's result for a CPU.
stats_show(cpus, info, code) ==
    FormatLu(StatsSum(cpus, info, code, 0, ULongZero))

\* One read of a statistics attribute.
stats_show_call ==
    /\ last = NoLast
    /\ \E code \in StatsAttrInputs, cpus \in SUBSET CpuIds,
          info \in [1..MaxCpus -> CpuInfoInputs] :
          last' = [NoLast EXCEPT !.op = "stats_show",
                                 !.query = [code |-> code,
                                            cpus_assigned |-> cpus,
                                            info |-> info],
                                 !.buffer = stats_show(cpus, info, code)]
    /\ UNCHANGED <<cpuVars, npt, mapped, globalVars>>

InitSysfs == InitFn

SpecSysfs == InitSysfs /\ [][stats_show_call]_vars

(***************************************************************************)
(* The instruction bytes the hardware fetched (decode assists).            *)
(***************************************************************************)
\* The borrow out of limb k of a - b.
RECURSIVE BorrowOut(_, _, _)
BorrowOut(a, b, k) ==
    IF k = 0 THEN 0
    ELSE IF a[k] - b[k] - BorrowOut(a, b, k - 1) < 0 THEN 1 ELSE 0

\* a - b on unsigned long.
ULongSub(a, b) ==
    [k \in 1..4 |-> (a[k] - b[k] - BorrowOut(a, b, k - 1) + 65536) % 65536]

\* a < n for an unsigned long a and a u8 n.
ULongBelow(a, n) == a[2] = 0 /\ a[3] = 0 /\ a[4] = 0 /\ a[1] < n

\* vmcb->guest_bytes, with room for 15 bytes.
GuestBytes == <<15, 34, 192, 144, 144, 144, 144, 144, 144, 144, 144, 144,
                144, 144, 144>>

\* The branch of vcpu_get_inst_bytes for decode assists once start is
\* computed: buf is the buffer the returned pointer points into ("null"
\* for NULL), ret the index of the byte it points to (-1 for NULL).
InstBytesFrom(start, bytes_fetched, size) ==
    IF ULongBelow(start, bytes_fetched)
    THEN [buf |-> "guest_bytes", ret |-> start[1],
          ret_size |-> bytes_fetched - start[1]]
    ELSE [buf |-> "null", ret |-> -1, ret_size |-> size]

\* vcpu_get_inst_bytes for the address at (the parameter pc).  Without
\* decode assists it returns what vcpu_map_inst returns for the same
\* arguments: NULL if the page could not be mapped (map_ok false), else a
\* pointer to the byte at pc in the mapped page, with *size cut to the
\* map_size bytes vcpu_map_inst reports as readable there.
vcpu_get_inst_bytes(assists, rip, bytes_fetched, at, size, map_ok, map_size) ==
    IF assists
    THEN IF size = 0
         THEN [buf |-> "null", ret |-> -1, ret_size |-> size]
         ELSE InstBytesFrom(ULongSub(ULongOf(rip), ULongOf(at)),
                            bytes_fetched, size)
    ELSE IF map_ok
         THEN [buf |-> "vcpu_map_inst", ret |-> 0,
               ret_size |-> Min(size, map_size)]
         ELSE [buf |-> "null", ret |-> -1, ret_size |-> size]

\* Calls of vcpu_get_inst_bytes: the guest's rip, the addresses asked for
\* around it, the number of bytes the hardware fetched, the size asked for,
\* and what vcpu_map_inst does with the call when there are no decode
\* assists.
FetchInputs ==
    [assists : BOOLEAN, rip : {4096},
     pc : {4081, 4093, 4095, 4096, 4097, 4098, 4099, 4110, 4111},
     bytes_fetched : {0, 1, 3, 15}, size : {0, 1, 2, 15},
     map_ok : BOOLEAN, map_size : {1, 15}]

\* One call of vcpu_get_inst_bytes.
vcpu_get_inst_bytes_call ==
    /\ last = NoLast
    /\ \E i \in FetchInputs :
          \E r \in {vcpu_get_inst_bytes(i.assists, i.rip, i.bytes_fetched,
                                        i.pc, i.size, i.map_ok,
                                        i.map_size)} :
             last' = [NoLast EXCEPT
                         !.op = "vcpu_get_inst_bytes",
                         !.fetch = [assists |-> i.assists, rip |-> i.rip,
                                    bytes_fetched |-> i.bytes_fetched,
                                    pc |-> i.pc, size |-> i.size,
                                    map_ok |-> i.map_ok,
                                    map_size |-> i.map_size,
                                    buf |-> r.buf,
                                    ret |-> r.ret, ret_size |-> r.ret_size]]
    /\ UNCHANGED <<cpuVars, npt, mapped, globalVars>>

NextFn ==
    \/ x86_parse_mov_to_cr_call
    \/ vcpu_get_guest_paging_structs_call
    \/ vcpu_get_inst_bytes_call

SpecFn == InitFn /\ [][NextFn]_vars

(***************************************************************************)
(* Leaving the hypervisor.                                                 *)
(***************************************************************************)
\* The control block at deactivation: as the handlers left it, or with
\* state the guest changed without an exit since (CR4.PGE toggled, new FS
\* base, GS selector, STAR and SYSENTER_CS).
DeactivateVmcbInputs(v) ==
    { v,
      [v EXCEPT !.cr4 = BitXor(@, {7}), !.fs_base = 12288,
                !.gs_selector = 43, !.star = 2064, !.sysenter_cs = 32] }

\* The cpu_data->linux_* fields vcpu_deactivate_vmm stores from the
\* control block v.
DeactivatedLinux(l, v) ==
    [l EXCEPT !.cr0 = v.cr0,
              !.cr3 = v.cr3,
              !.gdtr_base = v.gdtr_base,
              !.gdtr_limit = v.gdtr_limit,
              !.idtr_base = v.idtr_base,
              !.idtr_limit = v.idtr_limit,
              !.cs_selector = v.cs_selector,
              !.tss_selector = v.tr_selector,
              !.efer = v.efer \ EFER_SVME,
              !.fs_base = v.fs_base,
              !.gs_base = v.gs_base,
              !.sysenter_cs = v.sysenter_cs,
              !.sysenter_eip = v.sysenter_eip,
              !.sysenter_esp = v.sysenter_esp,
              !.ds_selector = v.ds_selector,
              !.es_selector = v.es_selector,
              !.fs_selector = v.fs_selector,
              !.gs_selector = v.gs_selector]

\* The MSRs vcpu_deactivate_vmm writes from the control block v.
DeactivatedMsrs(h, v) ==
    [h EXCEPT !.star = v.star,
              !.lstar = v.lstar,
              !.cstar = v.cstar,
              !.sfmask = v.sfmask,
              !.kerngsbase = v.kerngsbase,
              !.pat = v.g_pat]

\* vcpu_deactivate_vmm: it writes the MSRs and the cpu_data->linux_*
\* fields from the control block and calls arch_cpu_restore, which calls
\* vcpu_exit (virtualization off: SVMOFF, stgi, EFER without SVME, the
\* host-save-area MSR zero); it then stores the guest's instruction pointer
\* below the guest's stack pointer (stack--, *stack = linux_ip) and returns
\* to Linux through it.  With vmcb->rsp 0, as vcpu_park and a vCPU reset
\* leave it, the store goes to 0xfffffffffffffff8 and faults.
vcpu_deactivate_vmm ==
    /\ pc = "guest"
    /\ \E v \in DeactivateVmcbInputs(vmcb) :
          /\ vmcb' = v
          /\ pc' = IF v.rsp = 0 THEN "faulted" ELSE "deactivated"
          /\ linux' = DeactivatedLinux(linux, v)
          /\ IF svm_state = "SVMOFF"
             THEN /\ UNCHANGED svm_state
                  /\ host' = DeactivatedMsrs(host, v)
                  /\ last' = [NoLast EXCEPT
                                 !.op = "vcpu_deactivate_vmm",
                                 !.pre = v, !.prehost = host,
                                 !.regs = guest_regs,
                                 !.calls = {"arch_cpu_restore"},
                                 !.msrs = {"MSR_STAR", "MSR_LSTAR",
                                           "MSR_CSTAR", "MSR_SFMASK",
                                           "MSR_KERNGS_BASE", "MSR_IA32_PAT"}]
             ELSE /\ svm_state' = "SVMOFF"
                  /\ host' = [DeactivatedMsrs(host, v) EXCEPT
                                 !.efer = @ \ EFER_SVME,
                                 !.hsave_pa = "zero"]
                  /\ last' = [NoLast EXCEPT
                                 !.op = "vcpu_deactivate_vmm",
                                 !.pre = v, !.prehost = host,
                                 !.regs = guest_regs,
                                 !.calls = {"arch_cpu_restore", "stgi"},
                                 !.msrs = {"MSR_STAR", "MSR_LSTAR",
                                           "MSR_CSTAR", "MSR_SFMASK",
                                           "MSR_KERNGS_BASE", "MSR_IA32_PAT",
                                           "MSR_EFER", "MSR_VM_HSAVE_PA"}]
    /\ UNCHANGED <<has_assists, has_flush_by_asid, has_avic,
                   guest_regs, stats, seen, npt, mapped, globalVars>>

\* The life of one CPU from vcpu_vendor_init to the guest's exits, parking
\* and deactivation; vcpu_exit and initialising again after it are followed
\* in SpecInit.
Next ==
    \/ vcpu_vendor_init
    \/ vcpu_init
    \/ vcpu_activate_vmm
    \/ vcpu_park
    \/ vcpu_deactivate_vmm
    \/ ExitInvalid
    \/ ExitNmi
    \/ ExitCpuid
    \/ ExitVmmcall
    \/ ExitCr0SelWrite
    \/ ExitMsr
    \/ ExitNpf
    \/ ExitXsetbv
    \/ ExitIoio
    \/ ExitOther

Spec == Init /\ [][Next]_vars

\* Sequences of vcpu_init, vcpu_activate_vmm, vcpu_deactivate_vmm and
\* vcpu_exit on one CPU, without guest exits between them.
NextInit ==
    \/ vcpu_vendor_init
    \/ vcpu_init
    \/ vcpu_activate_vmm
    \/ vcpu_exit
    \/ vcpu_deactivate_vmm

SpecInit == Init /\ [][NextInit]_vars

(***************************************************************************)
(* All operations together: the platform and CPU operations, the exits,    *)
(* and the cell operations, in any order.  The exits and the regions are   *)
(* drawn from smaller sets than in Spec and SpecNpt: one exit that is      *)
(* fatal, the NMI exits, an EFER write and an accepted XSETBV, and two     *)
(* regions.                                                                *)
(***************************************************************************)
FrameExitInputs ==
    [exitcode : {VMEXIT_INVALID}, exitinfo1 : {{}}, sipi : {-1},
     rax : {{}}, rcx : {{}}]
    \cup
    [exitcode : {VMEXIT_NMI}, exitinfo1 : {{}}, sipi : {-1, 16},
     rax : {{}}, rcx : {{}}]
    \cup
    [exitcode : {VMEXIT_MSR}, exitinfo1 : {{0}}, sipi : {-1},
     rax : {EFER_LME}, rcx : {MSR_EFER}]
    \cup
    [exitcode : {VMEXIT_XSETBV}, exitinfo1 : {{}}, sipi : {-1},
     rax : {{0, 1, 2}}, rcx : {{}}]

FrameMemInputs ==
    [phys_start : {8192}, virt_start : {4096}, size : {4096},
     flags : {{0, 1}, {0, 1, 5}}]

NextFrame ==
    \/ vcpu_vendor_init
    \/ vcpu_init
    \/ vcpu_activate_vmm
    \/ vcpu_exit
    \/ vcpu_park
    \/ \E cell \in Cells : vcpu_vendor_cell_init(cell)
    \/ \E cell \in Cells : vcpu_vendor_cell_exit(cell)
    \/ \E cell \in Cells, mem \in FrameMemInputs :
          vcpu_map_memory_region(cell, mem)
    \/ \E r \in mapped : vcpu_unmap_memory_region(r.cell, r.mem)
    \/ \E i \in FrameExitInputs :
          vcpu_handle_exit(i.exitcode, i.exitinfo1, {}, vmcb,
                           MkRegs(i.rax, i.rcx, {}, {}),
                           [NoExt EXCEPT !.sipi = i.sipi])

SpecFrame == InitNpt /\ [][NextFrame]_vars


(***************************************************************************)
(* Properties.                                                             *)
(***************************************************************************)
Exited == last.op = "exit"
Resumed == Exited /\ last.result = "resume"
ExitedWith(code) == Exited /\ last.exitcode = code
Built == svm_state = "SVMON"

IsEferWrite ==
    /\ ExitedWith(VMEXIT_MSR)
    /\ last.exitinfo1 # {}
    /\ last.regs[RCX] = MSR_EFER

\* C1: once the control block is built the stored guest EFER always has SVME
\* set, and an emulated write to EFER stores EDX:EAX with SVME forced on.
C1_EferSvmeForced ==
    /\ Built => 12 \in vmcb.efer
    /\ IsEferWrite =>
          /\ last.result = "resume"
          /\ vmcb.efer = {b \in last.regs[RAX] : b < 32}
                         \cup {b + 32 : b \in {d \in last.regs[RDX] : d < 32}}
                         \cup {12}

C1_Witness ==
    /\ IsEferWrite
    /\ 12 \notin last.regs[RAX]
    /\ last.regs[RDX] # {}
    /\ last.regs[RAX] \cap (32..63) # {}
    /\ 12 \in vmcb.efer

HandledExits ==
    {VMEXIT_NMI, VMEXIT_VMMCALL, VMEXIT_CR0_SEL_WRITE, VMEXIT_MSR, VMEXIT_NPF,
     VMEXIT_IOIO, VMEXIT_XSETBV}

TookFatalPath == last.result = "fatal" /\ last.dumped /\ pc = "stopped"

\* C2 as stated: vcpu_handle_exit returns for resumption only for NMI,
\* VMMCALL, CR0 write, MSR, nested page fault, port I/O and XSETBV; every
\* other exit code takes the fatal path.
C2_ReturnsOnlyForHandledExits ==
    Exited =>
        /\ last.result = "resume" => last.exitcode \in HandledExits
        /\ last.exitcode \notin HandledExits => TookFatalPath

\* C2, amended: vcpu_handle_exit returns for resumption only for the seven
\* exit codes it handles and for a CPUID exit, for which it returns without
\* emulating anything; an invalid-entry exit and every remaining exit code
\* take the fatal path.
C2_ReturnsForHandledExitsAndCpuid ==
    Exited =>
        /\ last.result = "resume" =>
              last.exitcode \in HandledExits \cup {VMEXIT_CPUID}
        /\ last.exitcode \notin HandledExits \cup {VMEXIT_CPUID} =>
              TookFatalPath
        /\ last.exitcode = VMEXIT_CPUID =>
              /\ last.result = "resume"
              /\ pc = "guest"
              /\ vmcb = [last.pre EXCEPT !.clean_bits = CLEAN_BITS_ALL]
              /\ guest_regs = last.regs

C2_Witness ==
    /\ ExitedWith(VMEXIT_INVALID)
    /\ TookFatalPath

\* C3: once vcpu_handle_exit has taken the fatal path the guest state has
\* been dumped, the CPU is stopped, and no later step changes the control
\* block, the guest registers or the counters: the guest is not resumed on
\* that CPU and the emulation is not retried.
C3_FatalStopsForGood ==
    /\ [](last.result = "fatal" => (last.dumped /\ pc = "stopped"))
    /\ [][last.result = "fatal" =>
            (pc' = "stopped" /\ UNCHANGED <<vmcb, guest_regs, stats, last>>)]_vars

C3_Witness ==
    /\ ExitedWith(VMEXIT_MSR)
    /\ last.result = "fatal"
    /\ last.dumped
    /\ pc = "stopped"

ControlRegsChanged ==
    \/ vmcb.cr0 # last.pre.cr0
    \/ vmcb.cr3 # last.pre.cr3
    \/ vmcb.cr4 # last.pre.cr4
    \/ vmcb.efer # last.pre.efer

\* C4 as stated: before it branches on the exit code vcpu_handle_exit marks
\* the whole cached guest state dirty (no clean bit set).
C4_PrologueMarksAllDirty == Exited => last.clean0 = {}

\* The exit ran the CR0-write emulation or the EFER-write emulation to its
\* end; both clear the control-register clean bit whatever value is written.
CrxEmulated ==
    /\ last.result = "resume"
    /\ (ExitedWith(VMEXIT_CR0_SEL_WRITE) \/ IsEferWrite)

\* C4, amended: before it branches on the exit code vcpu_handle_exit marks
\* the whole cached guest state clean (all 32 clean bits set); an emulator
\* then marks dirty what it writes: a vCPU reset clears every clean bit,
\* and the CR0-write and EFER-write emulations, when they succeed, clear
\* the control-register clean bit, also when the value written is the
\* value already stored.  After every other exit that resumes the guest
\* all 32 clean bits are set, and CR0, CR3, CR4 and EFER are unchanged.
C4_PrologueMarksAllClean ==
    Exited =>
        /\ last.clean0 = 0..31
        /\ last.reset => vmcb.clean_bits = {}
        /\ (last.result = "resume" /\ ~last.reset) =>
              /\ vmcb.clean_bits = IF CrxEmulated THEN (0..31) \ {5}
                                                  ELSE 0..31
              /\ ControlRegsChanged => CrxEmulated

\* A CR0 write of the value already stored has resumed with only the
\* control-register clean bit cleared.
C4_Witness ==
    /\ ExitedWith(VMEXIT_CR0_SEL_WRITE)
    /\ last.result = "resume"
    /\ ~last.reset
    /\ vmcb.cr0 = last.pre.cr0
    /\ vmcb.efer = last.pre.efer
    /\ vmcb.clean_bits = (0..31) \ {5}

RECURSIVE SumOver(_, _)
SumOver(f, S) ==
    IF S = {} THEN 0
    ELSE LET x == CHOOSE y \in S : TRUE IN f[x] + SumOver(f, S \ {x})

\* C5: the total-exit counter equals the number of exits taken, each
\* per-category counter equals the number of exits of its category, the
\* total is the sum of the categories plus the exits counted under no
\* category, and no counter ever decreases.
C5_CountersMatchExits ==
    /\ [](/\ \A c \in StatCategories : stats[c] = seen[c]
          /\ stats["TOTAL"] =
                SumOver(stats, StatCategories \ {"TOTAL"}) + seen["NONE"])
    /\ [][\A c \in StatCategories : stats'[c] >= stats[c]]_vars

C5_Witness ==
    /\ stats["CR"] = 1
    /\ stats["MSR"] = 1
    /\ stats["TOTAL"] = 2
    /\ last.op = "vcpu_park"

\* The value a trapped MOV to CR0 writes: the source register is named by
\* the low bits of EXITINFO1 (decode assists) or of the ModRM byte.
CrSourceReg ==
    IF has_assists
    THEN BitVal(last.exitinfo1 \cap {0, 1, 2})
    ELSE last.ext.inst[3] % 8

CrWrittenValue ==
    IF CrSourceReg = 4 THEN BitsOf(last.pre.rsp)
    ELSE last.regs[15 - CrSourceReg]

FlushRelevantChange ==
    \E b \in {31, 16, 30, 29} : (b \in CrWrittenValue) # (b \in last.pre.cr0)

ActivatesLongMode ==
    /\ 31 \in CrWrittenValue
    /\ 8 \in last.pre.efer
    /\ 10 \notin last.pre.efer

Cr0Emulated == ExitedWith(VMEXIT_CR0_SEL_WRITE) /\ last.result = "resume"

\* C6 as stated: a successful CR0-write emulation triggers exactly one flush
\* when the written value changes PG, WP, CD or NW relative to the stored
\* CR0, and none when it changes none of the four.
C6_OneFlushIffRelevantChange ==
    Cr0Emulated =>
        last.flushes = IF FlushRelevantChange THEN 1 ELSE 0

\* C6, amended: a successful CR0-write emulation requests one flush when the
\* written value changes PG, WP, CD or NW relative to the stored CR0, and one
\* more when the written value has PG set while the stored EFER has LME set
\* and LMA clear (long mode becomes active); it requests none only when
\* neither is the case.
C6_FlushOnChangeOrLongMode ==
    Cr0Emulated =>
        /\ last.flushes = (IF FlushRelevantChange THEN 1 ELSE 0)
                          + (IF ActivatesLongMode THEN 1 ELSE 0)
        /\ vmcb.tlb_control =
              IF FlushRelevantChange \/ ActivatesLongMode
              THEN (IF has_flush_by_asid THEN 3 ELSE 1)
              ELSE last.pre.tlb_control

C6_Witness ==
    /\ Cr0Emulated
    /\ ~FlushRelevantChange
    /\ ActivatesLongMode
    /\ last.flushes = 1

\* C7: the NW bit of the stored guest CR0 is off in every state reached
\* after the control block is built.
C7_NwAlwaysOff == Built => 29 \notin vmcb.cr0

\* C8 as stated: an XSETBV exit is accepted iff RAX has the x87 bit, no bit
\* outside the supported set, and RDX and RCX are 0; on acceptance XSETBV is
\* executed with the value and the guest is resumed, otherwise the fatal
\* path is taken and XCR0 is left alone.
C8_AcceptedIffRaxSupported ==
    ExitedWith(VMEXIT_XSETBV) =>
        LET rax == last.regs[RAX]
            acceptable == /\ 0 \in rax
                          /\ rax \subseteq CpuidXcr0
                          /\ last.regs[RDX] = {}
                          /\ last.regs[RCX] = {}
        IN  /\ acceptable <=> last.result = "resume"
            /\ acceptable =>
                  /\ "xsetbv" \in last.calls
                  /\ host.xcr0 = rax
                  /\ pc = "guest"
            /\ ~acceptable =>
                  /\ "xsetbv" \notin last.calls
                  /\ host.xcr0 = last.prehost.xcr0
                  /\ TookFatalPath

\* C8, amended: an XSETBV exit is accepted iff the low 32 bits of RAX (EAX,
\* the half of the value XSETBV takes from RAX) have the x87 bit and no bit
\* outside the supported set, and RDX and RCX are 0.  Bits 32..63 of RAX
\* are not examined.  On acceptance XSETBV is executed, XCR0 becomes EAX and
\* the guest is resumed 3 bytes on; otherwise the fatal path is taken and
\* XCR0 is left alone.
C8_XsetbvAcceptance ==
    ExitedWith(VMEXIT_XSETBV) =>
        LET eax == Low32(last.regs[RAX])
            acceptable == /\ 0 \in eax
                          /\ eax \subseteq CpuidXcr0
                          /\ last.regs[RDX] = {}
                          /\ last.regs[RCX] = {}
        IN  /\ acceptable <=> last.result = "resume"
            /\ acceptable =>
                  /\ "xsetbv" \in last.calls
                  /\ host.xcr0 = eax
                  /\ vmcb.rip = last.pre.rip + X86_INST_LEN_XSETBV
                  /\ pc = "guest"
            /\ ~acceptable =>
                  /\ "xsetbv" \notin last.calls
                  /\ host.xcr0 = last.prehost.xcr0
                  /\ TookFatalPath

\* A request with bit 63 of RAX set has been accepted and XCR0 holds the
\* low half.
C8_Witness ==
    /\ ExitedWith(VMEXIT_XSETBV)
    /\ last.regs[RAX] = {0, 1, 2, 63}
    /\ last.result = "resume"
    /\ "xsetbv" \in last.calls
    /\ host.xcr0 = {0, 1, 2}
    /\ last.prehost.xcr0 = {0}

MsrIsWrite == last.exitinfo1 # {}
MsrInX2Apic ==
    /\ ~ULess(last.regs[RCX], BitsOf(2048))
    /\ ~ULess(BitsOf(2111), last.regs[RCX])
MsrEmulatedHere ==
    MsrIsWrite /\ last.regs[RCX] \in {MSR_EFER, MTRR_DEFTYPE}

\* C9: on an MSR exit an address in the x2APIC range goes to the
\* interrupt-controller emulation (reads and writes), a write to EFER or to
\* MTRR_DEFTYPE is emulated, and any other access is fatal and leaves the
\* control block, the host MSRs and the guest registers as the dispatcher's
\* prologue left them.
C9_MsrDispatch ==
    ExitedWith(VMEXIT_MSR) =>
        /\ MsrInX2Apic =>
              last.calls = {IF MsrIsWrite THEN "x2apic_handle_write"
                                          ELSE "x2apic_handle_read"}
        /\ (~MsrInX2Apic /\ MsrEmulatedHere) =>
              (last.result = "resume" /\ last.calls = {})
        /\ (~MsrInX2Apic /\ ~MsrEmulatedHere) =>
              /\ TookFatalPath
              /\ last.calls = {}
              /\ last.msrs = {"MSR_GS_BASE"}
              /\ host = last.prehost
              /\ guest_regs = last.regs
              /\ vmcb = [last.pre EXCEPT !.clean_bits = CLEAN_BITS_ALL]

C9_Witness ==
    /\ ExitedWith(VMEXIT_MSR)
    /\ MsrIsWrite
    /\ last.regs[RCX] = BitsOf(2112)
    /\ TookFatalPath


\* Addresses inside a region: its first byte, a byte inside its first page
\* and its last byte.
SampleAddrs(mem) ==
    {mem.virt_start, mem.virt_start + 1280, mem.virt_start + mem.size - 1}

\* C10: for every combination of the read, write and execute flags, after
\* vcpu_map_memory_region a translation query (with no access requirement)
\* for an address inside the region returns a host-physical address, and the
\* mapping is present iff read, writable iff write, no-execute iff not
\* execute, and always has the user bit.
C10_PermissionEncoding ==
    \A r \in mapped : \A a \in SampleAddrs(r.mem) :
        /\ arch_paging_gphys2phys(r.cell, a, {}) # INVALID_PHYS_ADDR
        /\ (arch_paging_gphys2phys(r.cell, a, {0}) # INVALID_PHYS_ADDR)
              <=> (0 \in r.mem.flags)
        /\ (arch_paging_gphys2phys(r.cell, a, {1}) # INVALID_PHYS_ADDR)
              <=> (1 \in r.mem.flags)
        /\ (arch_paging_gphys2phys(r.cell, a, {63}) # INVALID_PHYS_ADDR)
              <=> (2 \notin r.mem.flags)
        /\ arch_paging_gphys2phys(r.cell, a, {2}) # INVALID_PHYS_ADDR

C10_Witness ==
    /\ \E r \in mapped : r.mem.flags = {1} /\ r.mem.size = 8192
    /\ \E r \in mapped : r.mem.flags = {0, 2}
    /\ C10_PermissionEncoding


(***************************************************************************)
(* Region translation.                                                     *)
(***************************************************************************)
\* Guest-physical addresses the queries are made for: inside, at the edges
\* of and outside the regions the model maps.
ProbeAddrs ==
    {0, 4095, 4096, 5376, 8191, 8192, 9000, 12287, 12288, 13568, 16383,
     16384, 20479, 20480, 24576}

InRegion(a, mem) == mem.virt_start <= a /\ a < mem.virt_start + mem.size

IsCommRegion(mem) == BitAnd(mem.flags, JAILHOUSE_MEM_COMM_REGION) # {}

\* The region of the end-to-end scenario: 0x1000 -> 0x2000, 0x1000 bytes,
\* read and write.
ScenarioRegion ==
    [phys_start |-> 8192, virt_start |-> 4096, size |-> 4096,
     flags |-> JAILHOUSE_MEM_READ \cup JAILHOUSE_MEM_WRITE]

\* C11: for a region {G, H, L} mapped into a cell (H the region's physical
\* start; a communication region is redirected and is not meant here), a
\* query for an address a with G <= a < G+L returns H + (a - G); a query
\* for an address in no mapped region of the cell faults; 0x1500 of the
\* region 0x1000 -> 0x2000 gives 0x2500 with read/write/no-execute; and
\* after vcpu_unmap_memory_region queries inside the range fault again.
C11_RegionTranslation ==
    /\ \A r \in mapped : \A a \in ProbeAddrs :
          (InRegion(a, r.mem) /\ ~IsCommRegion(r.mem))
             => arch_paging_gphys2phys(r.cell, a, {})
                   = r.mem.phys_start + (a - r.mem.virt_start)
    /\ \A cell \in DOMAIN npt : \A a \in ProbeAddrs :
          (\A r \in mapped : r.cell = cell => ~InRegion(a, r.mem))
             => arch_paging_gphys2phys(cell, a, {}) = INVALID_PHYS_ADDR
    /\ \A r \in mapped :
          r.mem = ScenarioRegion
             => /\ arch_paging_gphys2phys(
                       r.cell, 5376,
                       PAGE_FLAG_PRESENT \cup PAGE_FLAG_RW
                           \cup PAGE_FLAG_NOEXECUTE) = 9472
                /\ (\A q \in mapped : q.cell = r.cell => q = r)
                      => arch_paging_gphys2phys(r.cell, 12288, {})
                            = INVALID_PHYS_ADDR
    /\ (last.op = "vcpu_unmap_memory_region" /\ last.cell \in DOMAIN npt)
          => \A a \in ProbeAddrs :
                InRegion(a, last.mem)
                   => arch_paging_gphys2phys(last.cell, a, {})
                         = INVALID_PHYS_ADDR

C11_Witness ==
    /\ last.op = "vcpu_unmap_memory_region"
    /\ last.mem.size = 8192
    /\ [cell |-> last.cell, mem |-> ScenarioRegion] \in mapped
    /\ arch_paging_gphys2phys(last.cell, 5376, {}) = 9472
    /\ last.mem.virt_start = 12288
    /\ arch_paging_gphys2phys(last.cell, 12288, {}) = INVALID_PHYS_ADDR
    /\ arch_paging_gphys2phys(last.cell, 16384, {}) = INVALID_PHYS_ADDR


(***************************************************************************)
(* Parking.                                                                *)
(***************************************************************************)
\* The address of the first instruction the guest state names; with paging
\* and protection off it is a guest-physical address.
GuestEntryAddr(v) == v.cs_base + v.rip

\* The guest state svm_vcpu_reset leaves for the boot-CPU pseudo vector.
IsBspResetState(v) ==
    /\ v.cr0 = X86_CR0_NW \cup X86_CR0_CD \cup X86_CR0_ET
    /\ v.cr3 = {}
    /\ v.cr4 = {}
    /\ v.efer = EFER_SVME
    /\ v.rsp = 0
    /\ v.rip = 65520
    /\ v.cs_base = 983040
    /\ v.cs_selector = 61440

\* The halt loop starts at the host-physical address hpa: cli, hlt, jmp -4.
HaltLoopAt(hpa) ==
    /\ hpa \div PAGE_SIZE = PARKING_CODE_PAGE
    /\ parking_code[hpa % PAGE_SIZE] = 250
    /\ parking_code[(hpa % PAGE_SIZE) + 1] = 244
    /\ parking_code[(hpa % PAGE_SIZE) + 2] = 235
    /\ parking_code[(hpa % PAGE_SIZE) + 3] = 252

\* C12: after vcpu_park the guest state is the reset state whose first
\* instruction address (CS base + RIP) is 0xffff0, where the cli/hlt/jmp
\* loop begins inside the parking page mapped at guest-physical 0xff000;
\* the nested page-table root is the parked-mode table, not the cell's; and
\* a translation-cache flush is requested.
C12_ParkedState ==
    last.op = "vcpu_park"
       => /\ IsBspResetState(vmcb)
          /\ GuestEntryAddr(vmcb) = 1048560
          /\ GuestEntryAddr(vmcb) \div PAGE_SIZE = PARKING_GUEST_PAGE
          /\ HaltLoopAt(paging_virt2phys(parked_mode_npt,
                                         GuestEntryAddr(vmcb),
                                         PAGE_FLAG_PRESENT \cup PAGE_FLAG_US))
          /\ vmcb.n_cr3 = "parked_mode_npt"
          /\ vmcb.n_cr3 # svm_set_cell_config(vmcb).n_cr3
          /\ last.flushes = 1
          /\ vmcb.tlb_control \in {SVM_TLB_FLUSH_GUEST, SVM_TLB_FLUSH_ALL}

C12_Witness ==
    /\ last.op = "vcpu_park"
    /\ last.pre.n_cr3 = "cell_npt"
    /\ ~IsBspResetState(last.pre)
    /\ seen["TOTAL"] > 0
    /\ vmcb.n_cr3 = "parked_mode_npt"


(***************************************************************************)
(* Instruction decode.                                                     *)
(***************************************************************************)
DecodeCalled == last.op = "x86_parse_mov_to_cr"

\* The guest bytes can be read: the paging mode is supported and the page
\* can be mapped.
DecodeReadable ==
    /\ last.ext.map_ok
    /\ \/ BitAnd(last.pre.efer, EFER_LMA) # {}
       \/ BitAnd(last.pre.cr0, X86_CR0_PG) = {}
       \/ BitAnd(last.pre.cr4, X86_CR4_PAE) = {}

\* The instruction does not reach over the end of its guest page, so the
\* bytes read are the guest's.
DecodeWithinPage == last.ext.map_size >= 3

\* C13: the bytes 0x0f 0x22 and a ModRM byte at the guest instruction
\* pointer, in readable guest memory, are reported as a match with the
\* source register the ModRM byte names (bits 2:0), for all 8x8 register
\* combinations; any other first byte is no match.
C13_MatchForEveryModrm ==
    DecodeCalled =>
       /\ (/\ DecodeReadable
           /\ last.ext.guest[1] = 15
           /\ last.ext.guest[2] = 34)
             => last.dec = [ok |-> TRUE, gpr |-> last.ext.guest[3] % 8]
       /\ last.ext.guest[1] # 15 => ~last.dec.ok

\* The helper's decode when the instruction lies within one guest page: it
\* is called for one control register c and reports a match exactly when
\* the ModRM byte names c, then yielding the source register named by the
\* byte; any other first byte (a prefix included), another second byte, or
\* unreadable guest memory is no match.
DecodeWithinPageMatchesRequested ==
    (DecodeCalled /\ DecodeWithinPage) =>
       /\ \A c \in 0..7, g \in 0..7, mod \in 0..3 :
             (/\ DecodeReadable
              /\ last.ext.guest = <<15, 34, mod * 64 + c * 8 + g>>
              /\ last.reg = c)
                => last.dec = [ok |-> TRUE, gpr |-> g]
       /\ last.ext.guest[1] # 15 => ~last.dec.ok
       /\ last.ext.guest[2] # 34 => ~last.dec.ok
       /\ (last.ext.guest[3] \div 8) % 8 # last.reg => ~last.dec.ok
       /\ ~DecodeReadable => ~last.dec.ok

\* A MOV to CR0 that reaches over the end of its guest page, decoded for
\* CR0 in readable memory, is reported as no match.
DecodeCrossingMissed ==
    /\ DecodeCalled
    /\ DecodeReadable
    /\ ~DecodeWithinPage
    /\ last.ext.guest = <<15, 34, 192>>
    /\ last.reg = 0
    /\ ~last.dec.ok


(***************************************************************************)
(* Guest paging mode.                                                      *)
(***************************************************************************)
ClassifyCalled == last.op = "vcpu_get_guest_paging_structs"

GuestLme == BitAnd(last.pre.efer, EFER_LME) # {}
GuestLma == BitAnd(last.pre.efer, EFER_LMA) # {}
GuestPg == BitAnd(last.pre.cr0, X86_CR0_PG) # {}
GuestPae == BitAnd(last.pre.cr4, X86_CR4_PAE) # {}

LongModeResult ==
    [ok |-> TRUE, root_paging |-> "x86_64_paging",
     root_table_gphys |-> last.pre.cr3 \cap (12..51)]

I386Result ==
    [ok |-> TRUE, root_paging |-> "i386_paging",
     root_table_gphys |-> last.pre.cr3 \cap (12..31)]

\* 0xff000 is bits 12..19.
UnpagedResult ==
    [ok |-> TRUE, root_paging |-> "realmode_paging",
     root_table_gphys |-> 12..19]

FeatureError(f) ==
    IF ~f.svm THEN -ENODEV ELSE IF ~f.np THEN -EIO ELSE 0

\* Virtualization is off on this CPU and stays as it was found.
VirtualizationStaysOff ==
    /\ svm_state = "SVMOFF" /\ svm_state' = "SVMOFF"
    /\ vmcb = ZeroVmcb /\ vmcb' = ZeroVmcb
    /\ host' = host
    /\ pc' \notin {"initialized", "guest"}

\* C15: if the CPU does not report the virtualization extension or nested
\* paging, vcpu_init and vcpu_vendor_init return the error of the feature
\* check and no step enables virtualization on that CPU: the host EFER is
\* left as it was, svm_state stays SVMOFF and the control block is never
\* built.  The same holds for vcpu_vendor_init, with -EPERM, when
\* VM_CR.SVMDIS is set.
C15_NoVirtualizationWithoutFeatures ==
    [][ /\ FeatureError(hw.cpu) # 0 =>
             /\ VirtualizationStaysOff
             /\ last'.op = "vcpu_init" => last'.err = FeatureError(hw.cpu)
        /\ FeatureError(hw.master) # 0 =>
             /\ VirtualizationStaysOff
             /\ vendor' # "ready"
             /\ last'.op = "vcpu_vendor_init" =>
                   last'.err = FeatureError(hw.master)
        /\ (FeatureError(hw.master) = 0 /\ hw.svmdis) =>
             /\ VirtualizationStaysOff
             /\ vendor' # "ready"
             /\ last'.op = "vcpu_vendor_init" => last'.err = -EPERM ]_vars

\* vcpu_init has returned -EIO on a CPU without nested paging, after
\* vcpu_vendor_init succeeded on a CPU that has it.
C15_Witness ==
    /\ last.op = "vcpu_init"
    /\ hw.cpu.svm /\ ~hw.cpu.np
    /\ vendor = "ready"
    /\ last.err = -EIO
    /\ pc = "failed"
    /\ svm_state = "SVMOFF"
    /\ vmcb = ZeroVmcb


(***************************************************************************)
(* Instruction pointer after an emulation.                                 *)
(***************************************************************************)
\* Legacy and REX prefix bytes.
PrefixBytes == {102, 103, 240, 242, 243} \cup (64..79)

\* The length of the move-to-CR instruction that starts with the bytes
\* inst: the two opcode bytes and the ModRM byte, after one prefix if any.
MovToCrLength(inst) == IF inst[1] \in PrefixBytes THEN 4 ELSE 3

\* The length of the instruction that caused the last exit: rdmsr and wrmsr
\* are 0f 32 and 0f 30, xsetbv is 0f 01 d1, and the length of the access to
\* the interrupt-controller page is the one its emulation reports.
TrappedLength ==
    IF last.exitcode = VMEXIT_CR0_SEL_WRITE THEN MovToCrLength(last.ext.inst)
    ELSE IF last.exitcode = VMEXIT_MSR THEN 2
    ELSE IF last.exitcode = VMEXIT_XSETBV THEN 3
    ELSE last.ext.apic_len

EmulatedExits ==
    {VMEXIT_CR0_SEL_WRITE, VMEXIT_MSR, VMEXIT_XSETBV, VMEXIT_NPF}

\* C16: every emulation that succeeds (CR0 write, MSR read, MSR write,
\* XSETBV, interrupt-controller page access) has advanced the guest
\* instruction pointer by the byte length of the trapped instruction when
\* vcpu_handle_exit returns for resumption, for every encoding of the
\* instruction, with and without decode assists.
C16_RipAdvancedByInstructionLength ==
    (/\ Resumed
     /\ last.exitcode \in EmulatedExits
     /\ "vcpu_handle_pt_violation" \notin last.calls) =>
        vmcb.rip = last.pre.rip + TrappedLength


(***************************************************************************)
(* The global tables after vcpu_vendor_init.                               *)
(***************************************************************************)
\* C17: once vcpu_vendor_init has completed, no step (vcpu_init,
\* vcpu_activate_vmm, vcpu_handle_exit, vcpu_park, cell init or exit,
\* region map or unmap, vcpu_exit) changes the MSR intercept bitmap or the
\* parked-mode page table; the only change of the bitmap is the x2APIC
\* carve-out made by vcpu_vendor_init on a platform that uses x2APIC.
C17_GlobalTablesFrozen ==
    [][ /\ vendor # "uninit" => UNCHANGED <<msrpm, parked_mode_npt>>
        /\ msrpm' # msrpm =>
              /\ vendor = "uninit" /\ last'.op = "vcpu_vendor_init"
              /\ hw.using_x2apic
              /\ msrpm = MsrpmStatic
              /\ msrpm' = MsrpmX2ApicCarveOut(MsrpmStatic) ]_vars

\* A parked CPU has handled an exit on an x2APIC platform with a second
\* cell and a mapped region, and the tables are as vcpu_vendor_init left
\* them.
C17_Witness ==
    /\ vendor = "ready"
    /\ \E r \in mapped : r.cell = "cell1"
    /\ hw.using_x2apic
    /\ msrpm # MsrpmStatic
    /\ msrpm = MsrpmX2ApicCarveOut(MsrpmStatic)
    /\ parked_mode_npt = ParkingTable.pt
    /\ "cell1" \in DOMAIN npt
    /\ vmcb.n_cr3 = "parked_mode_npt"
    /\ last.op = "exit"


(***************************************************************************)
(* Clean bits after a build or a reset.                                    *)
(***************************************************************************)
StartupVectorExit ==
    /\ ExitedWith(VMEXIT_NMI)
    /\ last.ext.sipi >= 0

\* C18: no clean bit of the control block is set after the first build
\* (vcpu_init, whether or not it then succeeds), at the first guest entry
\* (vcpu_activate_vmm) and after every full-state
\* reset: after vcpu_park and after an NMI exit for which the event handler
\* returned a startup vector, which returns for resumption.
C18_AllDirtyAfterBuildOrReset ==
    /\ (last.op = "vcpu_init" /\ svm_state = "SVMON") => vmcb.clean_bits = {}
    /\ last.op = "vcpu_activate_vmm" => vmcb.clean_bits = {}
    /\ last.op = "vcpu_park" => (last.reset /\ vmcb.clean_bits = {})
    /\ StartupVectorExit =>
          /\ last.result = "resume"
          /\ last.reset
          /\ last.clean0 = CLEAN_BITS_ALL
          /\ vmcb.clean_bits = {}
    /\ (Exited /\ last.reset) => StartupVectorExit

\* An NMI exit with a startup vector has reset a CPU whose clean bits the
\* exit prologue had all set.
C18_Witness ==
    /\ StartupVectorExit
    /\ last.ext.sipi = 16
    /\ last.clean0 = CLEAN_BITS_ALL
    /\ pc = "guest"
    /\ vmcb.clean_bits = {}


(***************************************************************************)
(* Flush on an EFER write.                                                 *)
(***************************************************************************)
\* The LME and NXE bits of the value an EFER write asks for.
WrittenLmeNxe == last.regs[RAX] \cap {8, 11}

StoredLmeNxe == last.pre.efer \cap {8, 11}

\* C19: an emulated write to EFER requests a flush if and only if the LME
\* or the NXE bit of the new value differs from the stored guest EFER: one
\* flush request, of the kind the CPU supports, when one of them differs,
\* and none, with the flush control left as it was, when neither does.
C19_EferWriteFlush ==
    IsEferWrite =>
       /\ WrittenLmeNxe # StoredLmeNxe =>
             /\ last.flushes = 1
             /\ vmcb.tlb_control = IF has_flush_by_asid
                                   THEN SVM_TLB_FLUSH_GUEST
                                   ELSE SVM_TLB_FLUSH_ALL
       /\ WrittenLmeNxe = StoredLmeNxe =>
             /\ last.flushes = 0
             /\ vmcb.tlb_control = last.pre.tlb_control

\* A write that only clears NXE has requested a flush.
C19_Witness ==
    /\ IsEferWrite
    /\ StoredLmeNxe = {8, 11}
    /\ WrittenLmeNxe = {8}
    /\ last.flushes = 1
    /\ vmcb.tlb_control # SVM_TLB_FLUSH_NONE


(***************************************************************************)
(* Exits of a parked CPU.                                                  *)
(***************************************************************************)
Parked == vmcb.n_cr3 = "parked_mode_npt"

\* This step is vcpu_handle_exit on a parked CPU.
ExitStepWhileParked ==
    /\ Parked
    /\ last'.op = "exit"
    /\ seen'["TOTAL"] = seen["TOTAL"] + 1

\* The nested page table is the parked-mode table, which maps the parking
\* page and nothing else.
ConfinedToParkingPage ==
    /\ vmcb.n_cr3 = "parked_mode_npt"
    /\ DOMAIN parked_mode_npt = {PARKING_GUEST_PAGE}

\* C20 as stated: after vcpu_park every return of vcpu_handle_exit leaves
\* the nested page-table root at the parked-mode table, for every exit code
\* and every result of the platform event handler.
C20_ParkedForEveryExit ==
    [][ExitStepWhileParked => ConfinedToParkingPage']_vars

\* C20: after vcpu_park every return of vcpu_handle_exit leaves the nested
\* page-table root at the parked-mode table and the guest confined to the
\* parking page, for every exit code, unless the exit is an NMI exit for
\* which the platform event handler returns a startup vector: that exit
\* resets the CPU and puts it back on its cell's nested page table.
C20_ParkedUntilStartupVector ==
    [][ExitStepWhileParked =>
          IF last'.exitcode = VMEXIT_NMI /\ last'.ext.sipi >= 0
          THEN /\ vmcb'.n_cr3 = "cell_npt"
               /\ last'.reset
               /\ last'.result = "resume"
          ELSE ConfinedToParkingPage']_vars

\* A parked CPU has handled an MSR exit that was emulated, and is still on
\* the parked-mode table.
C20_Witness ==
    /\ ExitedWith(VMEXIT_MSR)
    /\ last.result = "resume"
    /\ last.pre.n_cr3 = "parked_mode_npt"
    /\ IsBspResetState(last.pre)
    /\ ConfinedToParkingPage


(***************************************************************************)
(* NMI exits.                                                              *)
(***************************************************************************)
\* The vector the reset uses: 0xf0 for the boot-CPU pseudo vector.
StartVector(sipi) == IF sipi = APIC_BSP_PSEUDO_SIPI THEN 240 ELSE sipi

\* C21: on an NMI exit the platform event handler is run and the guest is
\* always re-entered.  If the handler reports a startup vector v the vCPU
\* is reset to the real-mode start state for v (CS selector v<<8, CS base
\* v<<12, RIP 0; for the boot-CPU pseudo vector CS base 0xf0000 and RIP
\* 0xfff0) and all guest registers are zero; if it reports none, the guest
\* state of the control block and the guest registers are as they were.
C21_NmiExit ==
    ExitedWith(VMEXIT_NMI) =>
       /\ last.result = "resume"
       /\ pc = "guest"
       /\ ~last.dumped
       /\ "x86_handle_events" \in last.calls
       /\ last.ext.sipi >= 0 =>
             /\ last.reset
             /\ vmcb.cs_selector = StartVector(last.ext.sipi) * 256
             /\ vmcb.cs_base = StartVector(last.ext.sipi) * 4096
             /\ vmcb.rip = IF last.ext.sipi = APIC_BSP_PSEUDO_SIPI
                           THEN 65520 ELSE 0
             /\ vmcb.rsp = 0
             /\ vmcb.cr0 = X86_CR0_NW \cup X86_CR0_CD \cup X86_CR0_ET
             /\ vmcb.cr3 = {} /\ vmcb.cr4 = {}
             /\ vmcb.efer = EFER_SVME
             /\ guest_regs = ZeroRegs
       /\ last.ext.sipi < 0 =>
             /\ ~last.reset
             /\ vmcb = [last.pre EXCEPT !.clean_bits = CLEAN_BITS_ALL]
             /\ guest_regs = last.regs

\* A startup vector 16 has reset a CPU whose guest registers were not zero.
C21_Witness ==
    /\ ExitedWith(VMEXIT_NMI)
    /\ last.ext.sipi = 16
    /\ last.regs # ZeroRegs
    /\ guest_regs = ZeroRegs
    /\ vmcb.cs_selector = 4096
    /\ vmcb.cs_base = 65536
    /\ vmcb.rip = 0


(***************************************************************************)
(* Nested page faults.                                                     *)
(***************************************************************************)
\* The fault of the exit this step handles is an access to the interrupt
\* controller page: error-code bits 0..2 all set and the address, without
\* its page offset, equal to 0xfee00000.
ControllerFault ==
    /\ {0, 1, 2} \subseteq last'.exitinfo1
    /\ last'.exitinfo2 \ (0..11) = XAPIC_BASE

\* The controller emulator can finish: the offset is 16-byte aligned, the
\* guest paging mode is supported and the collaborator returns a length.
ControllerAccessOk ==
    /\ last'.exitinfo2 \cap (0..3) = {}
    /\ vcpu_get_guest_paging_structs(last'.pre).ok
    /\ last'.ext.apic_len # 0

NpfExitStep ==
    /\ last'.op = "exit"
    /\ last'.exitcode = VMEXIT_NPF
    /\ seen'["TOTAL"] = seen["TOTAL"] + 1

\* C22: a nested-page-fault exit is handled by the interrupt-controller
\* emulator if and only if the low three bits of the error code are all
\* set and the address lies inside the controller page; every other fault
\* goes to the page-fault collaborator.  The emulator calls its
\* collaborator only for 16-byte aligned offsets; a misaligned offset, a
\* collaborator result of 0 or a page-fault collaborator that declines is
\* fatal.  Exactly one of the two counters is incremented.
C22_NestedPageFaultRouting ==
    [][NpfExitStep =>
          IF ControllerFault
          THEN /\ stats'["XAPIC"] = stats["XAPIC"] + 1
               /\ stats'["MMIO"] = stats["MMIO"]
               /\ "vcpu_handle_pt_violation" \notin last'.calls
               /\ last'.exitinfo2 \cap (0..3) # {} =>
                     "apic_mmio_access" \notin last'.calls
               /\ (last'.result = "resume") = ControllerAccessOk
               /\ last'.result = "resume" =>
                     "apic_mmio_access" \in last'.calls
          ELSE /\ stats'["MMIO"] = stats["MMIO"] + 1
               /\ stats'["XAPIC"] = stats["XAPIC"]
               /\ "vcpu_handle_pt_violation" \in last'.calls
               /\ "apic_mmio_access" \notin last'.calls
               /\ (last'.result = "resume") = last'.ext.pt_ok]_vars

\* A misaligned access to the controller page was fatal and counted as a
\* controller access.
C22_Witness ==
    /\ ExitedWith(VMEXIT_NPF)
    /\ last.exitinfo1 = {0, 1, 2}
    /\ last.exitinfo2 = XAPIC_BASE \cup {2}
    /\ last.result = "fatal"
    /\ stats["XAPIC"] = 1
    /\ stats["MMIO"] = 0


(***************************************************************************)
(* Communication regions.                                                  *)
(***************************************************************************)
\* The host-physical address the region's guest-physical start translates
\* to in its cell.
RegionTarget(r) == arch_paging_gphys2phys(r.cell, r.mem.virt_start, {})

\* C23: a region flagged as the communication region is mapped to the
\* cell's own communication page, whatever physical start it requests; a
\* region without the flag is mapped to its configured physical start; and
\* the communication regions of two cells never have the same target page.
C23_CommRegionTarget ==
    /\ \A r \in mapped :
          RegionTarget(r) = IF 5 \in r.mem.flags
                            THEN CommPagePhys(r.cell)
                            ELSE r.mem.phys_start
    /\ \A r, q \in mapped :
          (5 \in r.mem.flags /\ 5 \in q.mem.flags /\ r.cell # q.cell)
             => RegionTarget(r) \div PAGE_SIZE # RegionTarget(q) \div PAGE_SIZE
    /\ (last.op = "vcpu_map_memory_region" /\ last.err = 0)
          => [cell |-> last.cell, mem |-> last.mem] \in mapped

\* Both cells have a communication region, requested at two different
\* physical addresses, each on the cell's own page.
C23_Witness ==
    \E r, q \in mapped :
       /\ r.cell = "root" /\ q.cell = "cell1"
       /\ 5 \in r.mem.flags /\ 5 \in q.mem.flags
       /\ r.mem.phys_start = 8192 /\ q.mem.phys_start = 20480
       /\ RegionTarget(r) = 65536
       /\ RegionTarget(q) = 69632


(***************************************************************************)
(* Decoding an instruction that reaches over the end of a guest page.      *)
(***************************************************************************)
\* What the three guest bytes g decode to for control register reg.
DecodeOfGuestBytes(g, reg) ==
    IF g[1] = 15 /\ g[2] = 34 /\ (g[3] \div 8) % 8 = reg
    THEN [ok |-> TRUE, gpr |-> g[3] % 8]
    ELSE NoDecode

\* C24: when the bytes of the instruction span a guest page boundary the
\* decode helper compares the guest bytes at cs_base + rip + i, fetched
\* through a further mapping of the following guest page, so its result is
\* the decode of the guest's bytes; if a page cannot be mapped it reports
\* no match.
C24_DecodesGuestBytesAcrossPages ==
    DecodeCalled =>
       last.dec = IF DecodeReadable
                  THEN DecodeOfGuestBytes(last.ext.guest, last.reg)
                  ELSE NoDecode


(***************************************************************************)
(* Deactivation.                                                           *)
(***************************************************************************)
\* vcpu_deactivate_vmm has returned to Linux.
Deactivated == last.op = "vcpu_deactivate_vmm" /\ pc = "deactivated"

\* The fields the host is restored from hold the control block's values.
RestoredFromVmcb(l, h, v) ==
    /\ l.cr0 = v.cr0
    /\ l.cr3 = v.cr3
    /\ l.cr4 = v.cr4
    /\ l.efer = v.efer \ {12}
    /\ l.gdtr_base = v.gdtr_base /\ l.gdtr_limit = v.gdtr_limit
    /\ l.idtr_base = v.idtr_base /\ l.idtr_limit = v.idtr_limit
    /\ l.cs_selector = v.cs_selector
    /\ l.ds_selector = v.ds_selector
    /\ l.es_selector = v.es_selector
    /\ l.fs_selector = v.fs_selector
    /\ l.gs_selector = v.gs_selector
    /\ l.tss_selector = v.tr_selector
    /\ l.fs_base = v.fs_base
    /\ l.gs_base = v.gs_base
    /\ l.sysenter_cs = v.sysenter_cs
    /\ l.sysenter_eip = v.sysenter_eip
    /\ l.sysenter_esp = v.sysenter_esp
    /\ h.star = v.star
    /\ h.lstar = v.lstar
    /\ h.cstar = v.cstar
    /\ h.sfmask = v.sfmask
    /\ h.kerngsbase = v.kerngsbase
    /\ h.pat = v.g_pat

\* This step deactivates directly after the first guest entry, with the
\* control block as the build left it.
DeactivateAfterBuild ==
    /\ last.op = "vcpu_activate_vmm"
    /\ pc = "guest"
    /\ last'.op = "vcpu_deactivate_vmm"
    /\ last'.pre = vmcb

\* C25: after vcpu_deactivate_vmm the host-restore state holds the control
\* block's CR0, CR3, CR4, EFER without SVME, GDTR and IDTR base and limit,
\* the CS/DS/ES/FS/GS/TR selectors, the FS and GS bases and the SYSENTER
\* registers, and STAR/LSTAR/CSTAR/SFMASK/KERNGS_BASE/PAT are written with
\* the control block's values; a build followed directly by deactivation
\* returns each of these to its value before the build (last.prehost then
\* holds the MSRs as vcpu_init found and left them).
C25_DeactivateRestoresHost ==
    /\ [](Deactivated => RestoredFromVmcb(linux, host, last.pre))
    /\ [][DeactivateAfterBuild =>
            /\ linux'.cr0 = linux.cr0
            /\ linux'.cr3 = linux.cr3
            /\ linux'.cr4 = linux.cr4
            /\ linux'.efer = linux.efer
            /\ linux'.gdtr_base = linux.gdtr_base
            /\ linux'.gdtr_limit = linux.gdtr_limit
            /\ linux'.idtr_base = linux.idtr_base
            /\ linux'.idtr_limit = linux.idtr_limit
            /\ linux'.cs_selector = linux.cs_selector
            /\ linux'.ds_selector = linux.ds_selector
            /\ linux'.es_selector = linux.es_selector
            /\ linux'.fs_selector = linux.fs_selector
            /\ linux'.gs_selector = linux.gs_selector
            /\ linux'.tss_selector = linux.tss_selector
            /\ linux'.fs_base = linux.fs_base
            /\ linux'.gs_base = linux.gs_base
            /\ linux'.sysenter_cs = last.prehost.sysenter_cs
            /\ linux'.sysenter_eip = last.prehost.sysenter_eip
            /\ linux'.sysenter_esp = last.prehost.sysenter_esp
            /\ host'.star = last.prehost.star
            /\ host'.lstar = last.prehost.lstar
            /\ host'.cstar = last.prehost.cstar
            /\ host'.sfmask = last.prehost.sfmask
            /\ host'.kerngsbase = last.prehost.kerngsbase
            /\ host'.pat = last.prehost.pat]_vars


(***************************************************************************)
(* The statistics attributes.                                              *)
(***************************************************************************)
StatsRead == last.op = "stats_show"

\* The hypercall's result for a CPU and the attribute's category.
InfoOf(cpu) == last.query.info[cpu + 1][last.query.code]

\* What each CPU is to contribute: its counter if it is assigned to the cell
\* and the query did not fail, split at 10^5.
HighPart == [cpu \in CpuIds |->
                IF cpu \in last.query.cpus_assigned /\ InfoOf(cpu) >= 0
                THEN InfoOf(cpu) \div 100000 ELSE 0]
LowPart == [cpu \in CpuIds |->
               IF cpu \in last.query.cpus_assigned /\ InfoOf(cpu) >= 0
               THEN InfoOf(cpu) % 100000 ELSE 0]

\* The number a sequence of decimal digit characters denotes.
RECURSIVE ParseDecimal(_)
ParseDecimal(s) ==
    IF s = <<>> THEN 0
    ELSE 10 * ParseDecimal(SubSeq(s, 1, Len(s) - 1))
         + (CHOOSE d \in 0..9 : DigitChars[d + 1] = s[Len(s)])

\* The digits of the text read, without the newline.
BufferDigits == SubSeq(last.buffer, 1, Len(last.buffer) - 1)

\* C26: the text read from a statistics attribute is the decimal form,
\* followed by a newline, of the sum of the hypercall's results for the
\* attribute's category over the CPUs assigned to the cell, a CPU with a
\* negative result contributing nothing; the read never fails.
C26_StatsAttributeIsSum ==
    StatsRead =>
        /\ Len(last.buffer) >= 2
        /\ last.buffer[Len(last.buffer)] = "\n"
        /\ \A k \in 1..Len(BufferDigits) :
              \E d \in 0..9 : DigitChars[d + 1] = BufferDigits[k]
        /\ Len(BufferDigits) > 1 => BufferDigits[1] # "0"
        /\ ParseDecimal(SubSeq(BufferDigits,
                               IF Len(BufferDigits) > 5
                               THEN Len(BufferDigits) - 4 ELSE 1,
                               Len(BufferDigits)))
              = SumOver(LowPart, CpuIds) % 100000
        /\ ParseDecimal(SubSeq(BufferDigits, 1, Len(BufferDigits) - 5))
              = SumOver(HighPart, CpuIds) + SumOver(LowPart, CpuIds) \div 100000

\* A read whose sum is beyond the range of an int, with an assigned CPU
\* whose query failed and counters of another category that differ.
C26_Witness ==
    /\ StatsRead
    /\ last.query.code = "TOTAL"
    /\ \E cpu \in last.query.cpus_assigned : InfoOf(cpu) < 0
    /\ \E cpu \in last.query.cpus_assigned :
          last.query.info[cpu + 1]["MMIO"] > 0
    /\ SumOver(HighPart, CpuIds) >= 42948
    /\ Len(last.buffer) = 11


(***************************************************************************)
(* Failed emulations.                                                      *)
(***************************************************************************)
\* The exit was for an instruction or access this file emulates itself,
\* and the emulation failed.
EmulationFailed ==
    /\ Exited
    /\ last.result = "fatal"
    /\ \/ last.exitcode \in {VMEXIT_CR0_SEL_WRITE, VMEXIT_MSR, VMEXIT_XSETBV}
       \/ /\ last.exitcode = VMEXIT_NPF
          /\ IsApicAccess(last.exitinfo1, last.exitinfo2)

\* C27: after a failed emulation of a CR0 write, an MSR access, XSETBV or
\* an interrupt-controller access the control block's RIP, CR0, EFER and
\* flush request are those of the exit, no flush was requested, and the
\* state was dumped.
C27_FailedEmulationLeavesGuestState ==
    EmulationFailed =>
        /\ vmcb.rip = last.pre.rip
        /\ vmcb.cr0 = last.pre.cr0
        /\ vmcb.efer = last.pre.efer
        /\ vmcb.tlb_control = last.pre.tlb_control
        /\ last.flushes = 0
        /\ last.dumped

\* A CR0 write without decode assists whose instruction bytes are not a
\* MOV to CR0 has failed.
C27_Witness ==
    /\ EmulationFailed
    /\ last.exitcode = VMEXIT_CR0_SEL_WRITE
    /\ ~has_assists
    /\ last.ext.map_ok
    /\ last.ext.inst # MovRaxCr0
    /\ last.dumped


(***************************************************************************)
(* Changed control registers are marked dirty.                             *)
(***************************************************************************)
\* C28: when vcpu_handle_exit returns to the guest with a stored CR0, CR3,
\* CR4 or EFER that differs from the value at the exit, no control-register
\* clean bit is set in the control block, for each of the four registers.
C28_ChangedControlRegisterIsDirty ==
    \A r \in {"cr0", "cr3", "cr4", "efer"} :
        (Exited /\ pc = "guest" /\ vmcb[r] # last.pre[r]) =>
            BitAnd(vmcb.clean_bits, CLEAN_BITS_CRX) = {}

\* An EFER write that changed the stored EFER has returned to the guest.
C28_Witness ==
    /\ ExitedWith(VMEXIT_MSR)
    /\ pc = "guest"
    /\ last.result = "resume"
    /\ vmcb.efer # last.pre.efer
    /\ vmcb.cr0 = last.pre.cr0
    /\ BitAnd(vmcb.clean_bits, CLEAN_BITS_CRX) = {}


(***************************************************************************)
(* Long mode active.                                                       *)
(***************************************************************************)
\* C29: in every state the stored guest EFER has LMA set only if it has LME
\* set and the stored CR0 has PG set.
C29_LmaOnlyWithLmeAndPg ==
    BitAnd(vmcb.efer, EFER_LMA) # {} =>
        /\ BitAnd(vmcb.efer, EFER_LME) # {}
        /\ BitAnd(vmcb.cr0, X86_CR0_PG) # {}


(***************************************************************************)
(* A failed vcpu_init.                                                     *)
(***************************************************************************)
InitFailed == last.op = "vcpu_init" /\ last.err # 0

\* This step switches svm_state to SVMON.
TurnsSvmOn == svm_state # "SVMON" /\ svm_state' = "SVMON"

\* C30 as stated: a vcpu_init that returned an error has left EFER, CR0, CR4
\* and the host-save-area MSR as they were and svm_state is not SVMON; and
\* svm_state becomes SVMON only in a vcpu_init that returns 0.
C30_FailedInitLeavesCpu ==
    /\ [](InitFailed =>
            /\ host.efer = last.prehost.efer
            /\ svm_state # "SVMON"
            /\ host.cr0 = last.prehost.cr0
            /\ host.cr4 = last.prehost.cr4
            /\ host.hsave_pa = last.prehost.hsave_pa)
    /\ [][TurnsSvmOn => (last'.op = "vcpu_init" /\ last'.err = 0)]_vars

\* The error is the one returned for reserved bits set in Linux's CR0, after
\* the feature and busy checks passed.
FailedOnReservedCr0 ==
    /\ InitFailed
    /\ FeatureError(hw.cpu) = 0
    /\ BitAnd(last.prehost.efer, EFER_SVME) = {}

\* C30, amended: a vcpu_init that returned an error has not written CR0, CR4
\* or the host-save-area MSR.  If the error came from the feature check or
\* from EFER.SVME found set, EFER is as it was and svm_state is not SVMON.
\* If it came from the check of Linux's CR0, returned as -EIO, EFER.SVME has
\* been set, svm_state is SVMON and the control block is built.  svm_state
\* becomes SVMON only in a vcpu_init that passed the feature check and found
\* EFER.SVME clear, and that returns 0 or this -EIO.
C30_FailedInitEffects ==
    /\ [](InitFailed =>
            /\ host.cr0 = last.prehost.cr0
            /\ host.cr4 = last.prehost.cr4
            /\ host.hsave_pa = last.prehost.hsave_pa
            /\ IF FailedOnReservedCr0
               THEN /\ last.err = -EIO
                    /\ BitAnd(linux.cr0, X86_CR0_RESERVED) # {}
                    /\ host.efer = BitOr(last.prehost.efer, EFER_SVME)
                    /\ svm_state = "SVMON"
                    /\ vmcb # ZeroVmcb
               ELSE /\ host.efer = last.prehost.efer
                    /\ svm_state # "SVMON"
                    /\ vmcb = ZeroVmcb)
    /\ [][TurnsSvmOn =>
            /\ last'.op = "vcpu_init"
            /\ last'.err \in {0, -EIO}
            /\ FeatureError(hw.cpu) = 0
            /\ BitAnd(host.efer, EFER_SVME) = {}
            /\ last'.err = 0 <=> BitAnd(linux.cr0, X86_CR0_RESERVED) = {}]_vars

\* vcpu_init has returned -EIO for reserved bits in Linux's CR0.
C30_Witness ==
    /\ FailedOnReservedCr0
    /\ pc = "failed"
    /\ svm_state = "SVMON"
    /\ BitAnd(host.efer, EFER_SVME) # {}
    /\ host.cr0 = "linux"


(***************************************************************************)
(* vcpu_exit and vcpu_init in sequence.                                    *)
(***************************************************************************)
\* This step is a call of vcpu_exit.
ExitCall == last'.op = "vcpu_exit"

\* The last call was a vcpu_exit that switched off virtualization enabled by
\* a vcpu_init that had returned 0 (only that writes the host-save-area MSR).
ExitedAfterSuccess ==
    /\ last.op = "vcpu_exit"
    /\ last.prehost.hsave_pa = "host_state"

\* C31: vcpu_exit on a CPU whose svm_state is SVMOFF changes nothing (so a
\* second vcpu_exit changes nothing); otherwise it sets svm_state to SVMOFF,
\* executes stgi, clears EFER.SVME, writes 0 to the host-save-area MSR and
\* leaves the rest of the host state alone.  In every state svm_state =
\* SVMON implies that EFER.SVME is set, and a vcpu_init that follows such a
\* vcpu_exit returns 0 with virtualization enabled again.
C31_ExitUndoesInit ==
    /\ [][ExitCall =>
            /\ svm_state' = "SVMOFF"
            /\ vmcb' = vmcb /\ linux' = linux
            /\ IF svm_state = "SVMOFF"
               THEN /\ host' = host
                    /\ last'.calls = {} /\ last'.msrs = {}
               ELSE /\ "stgi" \in last'.calls
                    /\ host' = [host EXCEPT !.efer = @ \ EFER_SVME,
                                            !.hsave_pa = "zero"]
                    /\ BitAnd(host'.efer, EFER_SVME) = {}
                    /\ last'.msrs = {"MSR_EFER", "MSR_VM_HSAVE_PA"}]_vars
    /\ [](svm_state = "SVMON" => BitAnd(host.efer, EFER_SVME) # {})
    /\ [][(ExitedAfterSuccess /\ last'.op = "vcpu_init") =>
            /\ last'.err = 0
            /\ svm_state' = "SVMON"
            /\ BitAnd(host'.efer, EFER_SVME) # {}
            /\ host'.hsave_pa = "host_state"
            /\ pc' = "initialized"]_vars

\* vcpu_init has returned 0 on a CPU that an earlier vcpu_exit had switched
\* off.
C31_Witness ==
    /\ last.op = "vcpu_init"
    /\ last.err = 0
    /\ last.prehost.hsave_pa = "zero"
    /\ BitAnd(last.prehost.efer, EFER_SVME) = {}
    /\ svm_state = "SVMON"
    /\ pc = "initialized"


(***************************************************************************)
(* The fetched instruction bytes.                                          *)
(***************************************************************************)
FetchCalled == last.op = "vcpu_get_inst_bytes" /\ last.fetch.assists

\* The address asked for lies within the bytes the hardware fetched.
PcInFetched ==
    /\ last.fetch.rip <= last.fetch.pc
    /\ last.fetch.pc < last.fetch.rip + last.fetch.bytes_fetched

\* C32: with decode assists, a call with a non-zero size for a pc with
\* rip <= pc < rip + bytes_fetched returns the fetched bytes from offset
\* pc - rip and sets *size to bytes_fetched - (pc - rip); a call for another
\* pc or with size 0 returns NULL; a returned pointer and size stay within
\* the buffer of fetched bytes.
C32_FetchedBytesAtPc ==
    FetchCalled =>
        /\ (last.fetch.size # 0 /\ PcInFetched) =>
              /\ last.fetch.ret = last.fetch.pc - last.fetch.rip
              /\ last.fetch.ret_size
                    = last.fetch.bytes_fetched - (last.fetch.pc - last.fetch.rip)
        /\ (last.fetch.size = 0 \/ ~PcInFetched) => last.fetch.ret = -1
        /\ last.fetch.ret # -1 =>
              /\ last.fetch.ret >= 0
              /\ last.fetch.ret_size >= 1
              /\ last.fetch.ret + last.fetch.ret_size <= Len(GuestBytes)

=============================================================================
